---- MODULE Spec2Model ----
(***************************************************************************)
(* Model of the VEX V5 host-mode simulator core: the Hardware State Store  *)
(* (host::HAL), the pros::Motor facade that writes into it, the display    *)
(* flush (host::Display::disp_flush_cb), the outbound frame envelope       *)
(* (host::IPCClient::send_message) and the mode orchestrator (main).       *)
(*                                                                         *)
(* C++ doubles are modelled as exact reduced rationals [n |-> , d |-> ].   *)
(***************************************************************************)
EXTENDS Integers, Sequences, FiniteSets, TLC

\* ------------------------------------------------------------------ bounds
MaxOps == 3
MaxTicks == 5
MaxThreads == 3
MaxIo == 2
ScenTicks == 50
\* pieces in which a blocking send() hands one frame to the connection
MaxPieces == 2
\* connections made by connect() in one run
MaxConnects == 2

\* ------------------------------------------------- program constants
NUM_MOTORS == 21
NUM_ANALOG == 4
NUM_DIGITAL == 18
NUM_LCD_LINES == 8
E_MOTOR_GEARSET_36 == 0
E_MOTOR_GEARSET_18 == 1
E_MOTOR_GEARSET_06 == 2
E_MOTOR_GEARSET_INVALID == 2147483647
WIDTH == 480
HEIGHT == 272
BUFFER_SIZE == WIDTH * HEIGHT

RobotMode == {"DISABLED", "AUTONOMOUS", "OPCONTROL"}

\* ------------------------------------------------- exact rationals
Abs(x) == IF x < 0 THEN -x ELSE x

RECURSIVE GCD(_, _)
GCD(a, b) == IF b = 0 THEN a ELSE GCD(b, a % b)

Norm(n, d) == LET g == GCD(Abs(n), d) IN [n |-> n \div g, d |-> d \div g]

R(n, d) == Norm(n, d)

RAdd(x, y) ==
    LET l == (x.d \div GCD(x.d, y.d)) * y.d
    IN  Norm(x.n * (l \div x.d) + y.n * (l \div y.d), l)

RMul(x, y) ==
    LET g1 == GCD(Abs(x.n), y.d)
        g2 == GCD(Abs(y.n), x.d)
    IN  Norm((x.n \div g1) * (y.n \div g2), (x.d \div g2) * (y.d \div g1))

RSub(x, y) == RAdd(x, [n |-> -y.n, d |-> y.d])
RAbs(x) == [n |-> Abs(x.n), d |-> x.d]
RLe(x, y) == RSub(x, y).n <= 0
RLt(x, y) == RSub(x, y).n < 0
\* static_cast<int32_t> of a non-negative double: truncation
Trunc(x) == x.n \div x.d

\* std::clamp(v, lo, hi)
clamp(v, lo, hi) == IF v < lo THEN lo ELSE IF hi < v THEN hi ELSE v

\* conversion of an int to int8_t (two's complement wrap)
ToInt8(x) == ((x + 128) % 256) - 128

\* ------------------------------------------------- state
\* Long decimals, for runs of ticks too long for the fractions above: a sign
\* and a magnitude of Limbs base-10000 digits, least significant first, the
\* first FracLimbs of them after the decimal point. Every value the physics
\* tick computes from a full-scale voltage within 50 ticks is exact in them.
Base == 10000
FracLimbs == 14
Limbs == 16

MagZero == [i \in 1..Limbs |-> 0]

RECURSIVE mag_mul(_, _, _, _)
mag_mul(m, k, i, carry) ==
    IF i > Limbs THEN <<>>
    ELSE LET p == m[i] * k + carry
         IN  <<p % Base>> \o mag_mul(m, k, i + 1, p \div Base)

RECURSIVE mag_div(_, _, _, _)
mag_div(m, k, i, rem) ==
    IF i = 0 THEN <<>>
    ELSE LET cur == rem * Base + m[i]
         IN  mag_div(m, k, i - 1, cur % k) \o <<cur \div k>>

RECURSIVE mag_add(_, _, _, _)
mag_add(a, b, i, carry) ==
    IF i > Limbs THEN <<>>
    ELSE LET t == a[i] + b[i] + carry
         IN  <<t % Base>> \o mag_add(a, b, i + 1, t \div Base)

\* a - b for a >= b
RECURSIVE mag_sub(_, _, _, _)
mag_sub(a, b, i, borrow) ==
    IF i > Limbs THEN <<>>
    ELSE LET t == a[i] - b[i] - borrow
         IN  <<IF t < 0 THEN t + Base ELSE t>>
                 \o mag_sub(a, b, i + 1, IF t < 0 THEN 1 ELSE 0)

RECURSIVE mag_lt(_, _, _)
mag_lt(a, b, i) ==
    IF i = 0 THEN FALSE
    ELSE IF a[i] # b[i] THEN a[i] < b[i]
    ELSE mag_lt(a, b, i - 1)

Dec(neg, mag) == [neg |-> neg /\ mag # MagZero, mag |-> mag]
DInt(v) ==
    Dec(v < 0, [i \in 1..Limbs |->
                  IF i = FracLimbs + 1 THEN Abs(v) % Base
                  ELSE IF i = FracLimbs + 2 THEN Abs(v) \div Base
                  ELSE 0])
DMul(x, k) == Dec(x.neg, mag_mul(x.mag, k, 1, 0))
DDiv(x, k) == Dec(x.neg, mag_div(x.mag, k, Limbs, 0))
DAbs(x) == Dec(FALSE, x.mag)
DAdd(x, y) ==
    IF x.neg = y.neg THEN Dec(x.neg, mag_add(x.mag, y.mag, 1, 0))
    ELSE IF mag_lt(x.mag, y.mag, Limbs) THEN Dec(y.neg, mag_sub(y.mag, x.mag, 1, 0))
    ELSE Dec(x.neg, mag_sub(x.mag, y.mag, 1, 0))
DLe(x, y) ==
    IF x.neg # y.neg THEN x.neg
    ELSE IF x.neg THEN ~mag_lt(x.mag, y.mag, Limbs)
    ELSE ~mag_lt(y.mag, x.mag, Limbs)
\* static_cast<int32_t> of a long decimal: the integer part, toward zero
DTrunc(x) ==
    LET v == x.mag[FracLimbs + 1] + Base * x.mag[FracLimbs + 2]
    IN  IF x.neg THEN -v ELSE v

VARIABLES
    motors,            \* HAL::_motors, indexed by port 1..21
    controllers,       \* HAL::_controllers, indexed by id 0..1
    battery,           \* HAL::_battery
    robot_mode,        \* HAL::_robot_mode
    lcd_lines,         \* HAL::_lcd_lines, indexed 0..7
    lcd_buttons,       \* HAL::_lcd_buttons
    lcd_bg_color,      \* HAL::_lcd_bg_color
    lcd_text_color,    \* HAL::_lcd_text_color
    lcd_initialized,   \* HAL::_lcd_initialized
    pros_motors,       \* pros::Motor objects: _port, _reversed, _gearset
    lastOp,            \* the operation that produced this state and its arguments
    nops,              \* number of operations performed so far
    ticks,             \* number of update() ticks performed so far
    streak,            \* observer: update() ticks since the last setter call, and
                       \* motor 1's actual velocity when that run of ticks began
    running,           \* main.cpp: static std::atomic<bool> running
    current_mode,      \* main.cpp: static std::atomic<RobotMode> current_mode
    last_mode,         \* main(): local last_mode
    mode_thread,       \* main(): local std::thread* mode_thread (0 = nullptr)
    threads,           \* the std::thread objects main() has created with new
    main_pc,           \* where the main thread is
    terminated,        \* std::terminate has been called
    rx,                \* the receive thread inside on_mode_change: [pc, msg]
    ipc_connected,     \* IPCClient::_connected
    disp_initialized,  \* Display::_initialized
    scen,              \* observer: progress of "AUTONOMOUS then DISABLED"
    seenAD,            \* observer: that scenario has happened
    framebuffer,       \* Display::_framebuffer: the cells written so far (index
                       \* -> RGB565 value); every other cell holds the 0 of memset
    emitted,           \* the ScreenUpdate records handed to send_screen_update
    wire,              \* the frames send_message has written to the socket
    last_flush,        \* observer: arguments of the last disp_flush_cb, and a count
    nio,               \* number of flushes and sends performed so far
    sim,               \* HAL::_motors[0] once more, its doubles held as long
                       \* decimals so that a run of 50 ticks can be followed
    simticks,          \* number of update() ticks applied to sim
    callbacks,         \* IPCClient: the kinds whose callback is registered
    touch,             \* Display::_touch_x, _touch_y, _touch_pressed
    chunk,             \* observer: the last chunk given to parse_message
    decoded,           \* observer: what that decode pass did
    outbox,            \* observer: the last record built by send_motor_telemetry
    hal_mutex,         \* HAL::_mutex: the thread that owns it, or "none"
    state_callback,    \* HAL::_state_callback: empty, or what the callable does
    upd,               \* position of the main thread inside HAL::update
    ipc_running,       \* IPCClient::_running
    sock,              \* IPCClient::_socket_fd and the state of its connection
    rxs,               \* the receive threads started so far, in order
    receive_thread,    \* IPCClient::_receive_thread: 0, or the thread it owns
    send_mutex,        \* IPCClient::_send_mutex: its owner, or "none"
    callback_mutex,    \* IPCClient::_callback_mutex: its owner, or "none"
    senders,           \* position of each calling thread inside send_message
    socket,            \* the pieces written to the current connection, in order
    conn,              \* position of the main thread inside connect/disconnect
    dropped,           \* observer: a drop was marked since connect() was called
    connect_ret,       \* observer: the last call of connect() and its outcome
    set_touch_call,    \* the receive thread inside Display::set_touch
    poll,              \* the widget layer inside Display::touch_read_cb
    reader             \* a thread reading a motor through get_motor_state

halVars == <<motors, controllers, battery, robot_mode, lcd_lines, lcd_buttons,
             lcd_bg_color, lcd_text_color, lcd_initialized>>

MotorState ==
    [voltage |-> 0, velocity |-> 0, position |-> R(0, 1),
     actual_velocity |-> R(0, 1), current |-> 0, temperature |-> R(25, 1),
     gearset |-> E_MOTOR_GEARSET_18, reversed |-> FALSE, connected |-> FALSE]

ControllerState ==
    [analog |-> [c \in 0..(NUM_ANALOG - 1) |-> 0],
     digital |-> [b \in 0..(NUM_DIGITAL - 1) |-> FALSE],
     connected |-> FALSE, battery_capacity |-> 100, battery_level |-> 100]

BatteryState ==
    [capacity |-> R(100, 1), current |-> 0, temperature |-> R(25, 1), voltage |-> 12600]

\* MotorState(), its doubles as long decimals
SimMotorState ==
    [voltage |-> 0, velocity |-> 0, position |-> DInt(0),
     actual_velocity |-> DInt(0), current |-> 0, temperature |-> DInt(25),
     gearset |-> E_MOTOR_GEARSET_18, reversed |-> FALSE, connected |-> FALSE]

\* what one decode pass did: the callback it invoked and the arguments it
\* passed, "none" when it invoked nothing, or the exception it threw
Call(kind, a, b, c, d, e, text) ==
    [kind |-> kind, a |-> a, b |-> b, c |-> c, d |-> d, e |-> e, text |-> text]
NoCall == Call("none", 0, 0, 0, 0, 0, <<>>)
Thrown(error) == Call(error, 0, 0, 0, 0, 0, <<>>)
Chunk(src, args, text) == [src |-> src, args |-> args, text |-> text]
NoChunk == Chunk("none", <<>>, <<>>)

\* an empty std::function, and a callable described by the HAL call it makes
NoStateCallback == [registered |-> FALSE, getter |-> FALSE, port |-> 0]
StateCallback(getter, port) == [registered |-> TRUE, getter |-> getter, port |-> port]

\* the threads that call send_*, and a thread that is not inside send_message
Senders == {"main", "mode", "flush"}
IdleSender == [pc |-> "idle", sent |-> 0, fd |-> 0, late |-> FALSE]
\* INVALID_SOCKET; an open socket carries the number of its connection
NoSocket == [state |-> "none", id |-> 0]
\* no call of connect() made yet
NoConnect ==
    [phase |-> "none", was_connected |-> FALSE, after_drop |-> FALSE,
     value |-> FALSE, spawned |-> 0, unclosed |-> 0]

\* the touch sample the Display is constructed with
NoTouch == [x |-> 0, y |-> 0, pressed |-> FALSE]
\* no set_touch in progress; `last` is the sample of the last call that
\* returned and `since` counts the calls that returned since the last poll
NoTouchCall == [pc |-> "idle", arg |-> NoTouch, last |-> NoTouch, since |-> 0]
\* no poll made yet; `expect` and `calls` are `last` and `since` as the poll
\* began, `overlap` tells that a set_touch ran while the poll did
NoPoll ==
    [pc |-> "idle", x |-> 0, y |-> 0, state |-> "REL", expect |-> NoTouch,
     calls |-> 0, overlap |-> FALSE]
\* no read through get_motor_state made yet; `snap` holds the fields read so
\* far and `seen` the values the motor had at the moments of the reads
NoReader == [pc |-> "idle", snap |-> <<>>, seen |-> {}]

NoFlush == [n |-> 0, area |-> [x1 |-> 0, y1 |-> 0, x2 |-> 0, y2 |-> 0], base |-> 0]
NoOp == [op |-> "none", a |-> 0, b |-> 0, c |-> 0]
Op(name, a, b, c) == [op |-> name, a |-> a, b |-> b, c |-> c]

\* ------------------------------------------------- HAL operations
\* Each operator gives the new value of the part of the store it writes.

init_motors == [p \in 1..NUM_MOTORS |-> MotorState]
init_controllers == [i \in 0..1 |-> [ControllerState EXCEPT !.connected = TRUE]]
init_lcd_lines == [l \in 0..(NUM_LCD_LINES - 1) |-> ""]

\* void HAL::update(): the physics sweep over one motor
\* max_velocity with 100 as the default of the switch
max_velocity_low_default(gearset) ==
    CASE gearset = E_MOTOR_GEARSET_36 -> 100
      [] gearset = E_MOTOR_GEARSET_18 -> 200
      [] gearset = E_MOTOR_GEARSET_06 -> 600
      [] OTHER -> 100

max_velocity(gearset) ==
    CASE gearset = E_MOTOR_GEARSET_36 -> 100
      [] gearset = E_MOTOR_GEARSET_18 -> 200
      [] gearset = E_MOTOR_GEARSET_06 -> 600
      [] OTHER -> 200

\* the target with the voltage taken as volts out of 12
target_velocity_volts(m) == RMul(R(m.voltage, 12), R(max_velocity(m.gearset), 1))
target_velocity(m) == RMul(R(m.voltage, 127), R(max_velocity(m.gearset), 1))

\* the sweep with the smoothing factor alpha = 0.2 instead of 0.1
update_motor_alpha(m) ==
    IF ~m.connected THEN m
    ELSE LET maxv   == max_velocity(m.gearset)
             actual == RAdd(RMul(m.actual_velocity, R(8, 10)),
                            RMul(target_velocity(m), R(2, 10)))
             pos    == RAdd(m.position, RMul(actual, R(3, 50)))
             cur    == Trunc(RMul(RAbs(RMul(actual, R(1, maxv))), R(2000, 1)))
             temp   == RAdd(R(25, 1), RMul(R(Abs(cur), 2500), R(30, 1)))
         IN  [m EXCEPT !.actual_velocity = actual, !.position = pos,
                       !.current = cur, !.temperature = temp]

update_motor(m) ==
    IF ~m.connected THEN m
    ELSE LET maxv   == max_velocity(m.gearset)
             actual == RAdd(RMul(m.actual_velocity, R(9, 10)),
                            RMul(target_velocity(m), R(1, 10)))
             pos    == RAdd(m.position, RMul(actual, R(3, 50)))
             cur    == Trunc(RMul(RAbs(RMul(actual, R(1, maxv))), R(2000, 1)))
             temp   == RAdd(R(25, 1), RMul(R(Abs(cur), 2500), R(30, 1)))
         IN  [m EXCEPT !.actual_velocity = actual, !.position = pos,
                       !.current = cur, !.temperature = temp]

update(ms) == [p \in 1..NUM_MOTORS |-> update_motor(ms[p])]

\* set_motor storing the voltage as given (clamp dropped)
set_motor_unclamped(ms, port, voltage) ==
    IF port < 1 \/ port > 21 THEN ms
    ELSE [ms EXCEPT ![port].voltage = voltage]

\* set_motor clamping to the int8 range instead of [-127,127]
set_motor_int8_clamp(ms, port, voltage) ==
    IF port < 1 \/ port > 21 THEN ms
    ELSE [ms EXCEPT ![port].voltage = clamp(voltage, -128, 127)]

\* motor setters: the new _motors array
set_motor(ms, port, voltage) ==
    IF port < 1 \/ port > 21 THEN ms
    ELSE [ms EXCEPT ![port].voltage = clamp(voltage, -127, 127)]

set_motor_velocity(ms, port, velocity) ==
    IF port < 1 \/ port > 21 THEN ms
    ELSE [ms EXCEPT ![port].velocity = velocity]

set_motor_position(ms, port, position) ==
    IF port < 1 \/ port > 21 THEN ms
    ELSE [ms EXCEPT ![port].position = position]

set_motor_gearset(ms, port, gearset) ==
    IF port < 1 \/ port > 21 THEN ms
    ELSE [ms EXCEPT ![port].gearset = gearset]

set_motor_reversed(ms, port, reversed) ==
    IF port < 1 \/ port > 21 THEN ms
    ELSE [ms EXCEPT ![port].reversed = reversed]

\* set_motor_connected that also stops the motor
set_motor_connected_stop(ms, port, connected) ==
    IF port < 1 \/ port > 21 THEN ms
    ELSE [ms EXCEPT ![port].connected = connected,
                    ![port].actual_velocity = R(0, 1)]

set_motor_connected(ms, port, connected) ==
    IF port < 1 \/ port > 21 THEN ms
    ELSE [ms EXCEPT ![port].connected = connected]

\* motor getters
get_motor_voltage(port) ==
    IF port < 1 \/ port > 21 THEN 0 ELSE motors[port].voltage
get_motor_velocity(port) ==
    IF port < 1 \/ port > 21 THEN 0 ELSE motors[port].velocity
get_motor_position(port) ==
    IF port < 1 \/ port > 21 THEN R(0, 1) ELSE motors[port].position
get_motor_actual_velocity(port) ==
    IF port < 1 \/ port > 21 THEN R(0, 1) ELSE motors[port].actual_velocity
get_motor_current(port) ==
    IF port < 1 \/ port > 21 THEN 0 ELSE motors[port].current
get_motor_temperature(port) ==
    IF port < 1 \/ port > 21 THEN R(0, 1) ELSE motors[port].temperature
get_motor_gearset(port) ==
    IF port < 1 \/ port > 21 THEN E_MOTOR_GEARSET_INVALID ELSE motors[port].gearset
get_motor_reversed(port) ==
    IF port < 1 \/ port > 21 THEN FALSE ELSE motors[port].reversed
is_motor_connected(port) ==
    IF port < 1 \/ port > 21 THEN FALSE ELSE motors[port].connected

\* controller setters: the new _controllers array
\* set_controller_analog storing the value as given
set_controller_analog_raw(cs, id, channel, value) ==
    IF id > 1 \/ channel > 3 THEN cs
    ELSE [cs EXCEPT ![id].analog[channel] = value]

set_controller_analog(cs, id, channel, value) ==
    IF id > 1 \/ channel > 3 THEN cs
    ELSE [cs EXCEPT ![id].analog[channel] = clamp(value, -127, 127)]

set_controller_digital(cs, id, button, value) ==
    IF id > 1 \/ button >= 18 THEN cs
    ELSE [cs EXCEPT ![id].digital[button] = value]

set_controller_connected(cs, id, connected) ==
    IF id > 1 THEN cs
    ELSE [cs EXCEPT ![id].connected = connected]

\* controller getters
get_controller_analog(id, channel) ==
    IF id > 1 \/ channel > 3 THEN 0 ELSE controllers[id].analog[channel]
get_controller_digital(id, button) ==
    IF id > 1 \/ button >= 18 THEN FALSE ELSE controllers[id].digital[button]
is_controller_connected(id) ==
    IF id > 1 THEN FALSE ELSE controllers[id].connected
get_controller_battery_capacity(id) ==
    IF id > 1 THEN 0 ELSE controllers[id].battery_capacity
get_controller_battery_level(id) ==
    IF id > 1 THEN 0 ELSE controllers[id].battery_level

\* lcd_set_text with the upper line check off by one
lcd_set_text_line8(ls, li, line, text) ==
    IF line < 0 \/ line > 8 THEN [lines |-> ls, initialized |-> li]
    ELSE [lines |-> [ls EXCEPT ![line] = text], initialized |-> TRUE]

\* text display: lcd_set_text also sets _lcd_initialized, so it yields both
lcd_set_text(ls, li, line, text) ==
    IF line < 0 \/ line > 7 THEN [lines |-> ls, initialized |-> li]
    ELSE [lines |-> [ls EXCEPT ![line] = text], initialized |-> TRUE]

lcd_get_text(line) ==
    IF line < 0 \/ line > 7 THEN "" ELSE lcd_lines[line]

lcd_clear(ls) == [l \in 0..(NUM_LCD_LINES - 1) |-> ""]

lcd_clear_line(ls, line) ==
    IF line < 0 \/ line > 7 THEN ls
    ELSE [ls EXCEPT ![line] = ""]

\* ------------------------------------------------- pros::Motor facade
NoMotor == [constructed |-> FALSE, port |-> 0, reversed |-> FALSE,
            gearset |-> E_MOTOR_GEARSET_18]

\* Motor::Motor(int8_t port, motor_gearset_e_t gearset, bool reverse): the object
Motor(port, gearset, reverse) ==
    LET p1 == IF port < 0 THEN ToInt8(-port) ELSE port
        r1 == IF port < 0 THEN ~reverse ELSE reverse
        p2 == IF p1 < 1 THEN 1 ELSE p1
        p3 == IF p2 > 21 THEN 21 ELSE p2
    IN  [constructed |-> TRUE, port |-> p3, reversed |-> r1, gearset |-> gearset]

\* Motor::move(int32_t voltage): the voltage handed to HAL::set_motor
move(obj, voltage) ==
    LET v == clamp(voltage, -127, 127)
    IN  IF obj.reversed THEN -v ELSE v

\* ------------------------------------------------- inputs
PortInputs == {0, 1, 22}
VoltInputs == {-200, -128, -127, 127, 128, 200}
\* the pros::Motor objects the user program declares
MotorObjs == {"left"}

\* ------------------------------------------------- actions of the store
\* what the store's operations leave alone
physVars == <<ticks, streak>>
orchVars == <<running, current_mode, last_mode, mode_thread, threads, main_pc,
              terminated, rx, ipc_connected, disp_initialized, scen, seenAD>>
dispVars == <<framebuffer, emitted, wire, last_flush, nio>>
scenVars == <<sim, simticks>>
parseVars == <<callbacks, touch, chunk, decoded, outbox>>
lockVars == <<hal_mutex, state_callback, upd>>
ipcVars == <<ipc_running, sock, rxs, receive_thread, send_mutex, callback_mutex,
             senders, socket, conn, dropped, connect_ret>>
obsVars == <<set_touch_call, poll, reader>>
auxVars == <<scenVars, parseVars, lockVars, ipcVars, obsVars>>
OutsideStore == UNCHANGED <<physVars, orchVars, dispVars, auxVars>>

Step(op) ==
    /\ nops < MaxOps
    /\ nops' = nops + 1
    /\ lastOp' = op
    /\ OutsideStore

Call_init ==
    /\ Step(Op("init", 0, 0, 0))
    /\ motors' = init_motors
    /\ controllers' = init_controllers
    /\ battery' = BatteryState
    /\ lcd_lines' = init_lcd_lines
    /\ lcd_buttons' = 0
    /\ lcd_initialized' = FALSE
    /\ UNCHANGED <<robot_mode, lcd_bg_color, lcd_text_color, pros_motors>>

Call_shutdown ==
    /\ Step(Op("shutdown", 0, 0, 0))
    /\ robot_mode' = "DISABLED"
    /\ UNCHANGED <<motors, controllers, battery, lcd_lines, lcd_buttons,
                   lcd_bg_color, lcd_text_color, lcd_initialized, pros_motors>>

Call_update ==
    /\ Step(Op("update", 0, 0, 0))
    /\ motors' = update(motors)
    /\ UNCHANGED <<controllers, battery, robot_mode, lcd_lines, lcd_buttons,
                   lcd_bg_color, lcd_text_color, lcd_initialized, pros_motors>>

OnlyMotors ==
    UNCHANGED <<controllers, battery, robot_mode, lcd_lines, lcd_buttons,
                lcd_bg_color, lcd_text_color, lcd_initialized, pros_motors>>

Call_set_motor ==
    \E port \in PortInputs, v \in VoltInputs :
        /\ Step(Op("set_motor", port, v, 0))
        /\ motors' = set_motor(motors, port, v)
        /\ OnlyMotors

Call_set_motor_velocity ==
    \E port \in {1, 22}, v \in {-50} :
        /\ Step(Op("set_motor_velocity", port, v, 0))
        /\ motors' = set_motor_velocity(motors, port, v)
        /\ OnlyMotors

Call_set_motor_position ==
    \E port \in {0, 21}, deg \in {90} :
        /\ Step(Op("set_motor_position", port, deg, 0))
        /\ motors' = set_motor_position(motors, port, R(deg, 1))
        /\ OnlyMotors

Call_set_motor_gearset ==
    \E port \in {1, 22}, g \in {E_MOTOR_GEARSET_06, E_MOTOR_GEARSET_INVALID} :
        /\ Step(Op("set_motor_gearset", port, g, 0))
        /\ motors' = set_motor_gearset(motors, port, g)
        /\ OnlyMotors

Call_set_motor_reversed ==
    \E port \in {0, 1} :
        /\ Step(Op("set_motor_reversed", port, 1, 0))
        /\ motors' = set_motor_reversed(motors, port, TRUE)
        /\ OnlyMotors

Call_set_motor_connected ==
    \E port \in {1, 255} :
        /\ Step(Op("set_motor_connected", port, 1, 0))
        /\ motors' = set_motor_connected(motors, port, TRUE)
        /\ OnlyMotors

OnlyControllers ==
    UNCHANGED <<motors, battery, robot_mode, lcd_lines, lcd_buttons,
                lcd_bg_color, lcd_text_color, lcd_initialized, pros_motors>>

Call_set_controller_analog ==
    \E in \in {<<2, 0, 50>>, <<0, 4, 50>>, <<0, 3, 200>>, <<1, 0, -128>>} :
        /\ Step(Op("set_controller_analog", in[1], in[2], in[3]))
        /\ controllers' = set_controller_analog(controllers, in[1], in[2], in[3])
        /\ OnlyControllers

Call_set_controller_digital ==
    \E in \in {<<2, 6>>, <<0, 18>>, <<0, 17>>} :
        /\ Step(Op("set_controller_digital", in[1], in[2], 1))
        /\ controllers' = set_controller_digital(controllers, in[1], in[2], TRUE)
        /\ OnlyControllers

Call_set_controller_connected ==
    \E id \in {1, 2} :
        /\ Step(Op("set_controller_connected", id, 0, 0))
        /\ controllers' = set_controller_connected(controllers, id, FALSE)
        /\ OnlyControllers

Call_set_robot_mode ==
    \E mode \in {"AUTONOMOUS", "OPCONTROL"} :
        /\ Step(Op("set_robot_mode", IF mode = "AUTONOMOUS" THEN 1 ELSE 2, 0, 0))
        /\ robot_mode' = mode
        /\ UNCHANGED <<motors, controllers, battery, lcd_lines, lcd_buttons,
                       lcd_bg_color, lcd_text_color, lcd_initialized, pros_motors>>

OnlyLcd ==
    UNCHANGED <<motors, controllers, battery, robot_mode, pros_motors>>

Call_lcd_set_text ==
    \E line \in {-1, 0, 8} :
        LET r == lcd_set_text(lcd_lines, lcd_initialized, line, "a")
        IN  /\ Step(Op("lcd_set_text", line, 0, 0))
            /\ lcd_lines' = r.lines
            /\ lcd_initialized' = r.initialized
            /\ UNCHANGED <<lcd_buttons, lcd_bg_color, lcd_text_color>>
            /\ OnlyLcd

Call_lcd_clear ==
    /\ Step(Op("lcd_clear", 0, 0, 0))
    /\ lcd_lines' = lcd_clear(lcd_lines)
    /\ UNCHANGED <<lcd_buttons, lcd_bg_color, lcd_text_color, lcd_initialized>>
    /\ OnlyLcd

Call_lcd_clear_line ==
    \E line \in {0, 8} :
        /\ Step(Op("lcd_clear_line", line, 0, 0))
        /\ lcd_lines' = lcd_clear_line(lcd_lines, line)
        /\ UNCHANGED <<lcd_buttons, lcd_bg_color, lcd_text_color, lcd_initialized>>
        /\ OnlyLcd

\* lcd_set_button(button, true) with a single-bit mask: _lcd_buttons |= button
Call_lcd_set_button ==
    \E button \in {4} :
        /\ Step(Op("lcd_set_button", button, 1, 0))
        /\ lcd_buttons' = IF (lcd_buttons \div button) % 2 = 1
                          THEN lcd_buttons ELSE lcd_buttons + button
        /\ UNCHANGED <<lcd_lines, lcd_bg_color, lcd_text_color, lcd_initialized>>
        /\ OnlyLcd

Call_lcd_set_background_color ==
    \E color \in {255} :
        /\ Step(Op("lcd_set_background_color", color, 0, 0))
        /\ lcd_bg_color' = color
        /\ UNCHANGED <<lcd_lines, lcd_buttons, lcd_text_color, lcd_initialized>>
        /\ OnlyLcd

Call_lcd_set_text_color ==
    \E color \in {255} :
        /\ Step(Op("lcd_set_text_color", color, 0, 0))
        /\ lcd_text_color' = color
        /\ UNCHANGED <<lcd_lines, lcd_buttons, lcd_bg_color, lcd_initialized>>
        /\ OnlyLcd

\* Motor::Motor: builds the object, then three HAL calls
Construct_Motor ==
    \E o \in MotorObjs, port \in {-3, 21}, reverse \in BOOLEAN :
        LET obj == Motor(port, E_MOTOR_GEARSET_18, reverse)
        IN  /\ ~pros_motors[o].constructed
            /\ Step(Op("Motor", port, IF reverse THEN 1 ELSE 0, o))
            /\ pros_motors' = [pros_motors EXCEPT ![o] = obj]
            /\ motors' = set_motor_connected(
                             set_motor_reversed(
                                 set_motor_gearset(motors, obj.port, obj.gearset),
                                 obj.port, obj.reversed),
                             obj.port, TRUE)
            /\ UNCHANGED <<controllers, battery, robot_mode, lcd_lines, lcd_buttons,
                           lcd_bg_color, lcd_text_color, lcd_initialized>>

Call_move ==
    \E o \in MotorObjs, v \in {-200, 200} :
        /\ pros_motors[o].constructed
        /\ Step(Op("move", pros_motors[o].port, v, o))
        /\ motors' = set_motor(motors, pros_motors[o].port, move(pros_motors[o], v))
        /\ OnlyMotors

\* ------------------------------------------------- specification of the store
\* HAL::HAL() runs init(); main() runs init() again before anything else
Init ==
    /\ motors = init_motors
    /\ controllers = init_controllers
    /\ battery = BatteryState
    /\ robot_mode = "DISABLED"
    /\ lcd_lines = init_lcd_lines
    /\ lcd_buttons = 0
    /\ lcd_bg_color = 0
    /\ lcd_text_color = 65535
    /\ lcd_initialized = FALSE
    /\ pros_motors = [o \in MotorObjs |-> NoMotor]
    /\ lastOp = NoOp
    /\ nops = 0
    /\ ticks = 0
    /\ streak = [n |-> 0, a0 |-> R(0, 1)]
    /\ running = TRUE
    /\ current_mode = "DISABLED"
    /\ last_mode = "DISABLED"
    /\ mode_thread = 0
    /\ threads = <<>>
    /\ main_pc = "start"
    /\ terminated = FALSE
    /\ rx = [pc |-> "idle", msg |-> "none"]
    /\ ipc_connected = FALSE
    /\ disp_initialized = FALSE
    /\ scen = "none"
    /\ seenAD = FALSE
    /\ framebuffer = <<>>
    /\ emitted = <<>>
    /\ wire = <<>>
    /\ last_flush = NoFlush
    /\ nio = 0
    /\ sim = SimMotorState
    /\ simticks = 0
    /\ callbacks = {}
    /\ touch = [x |-> 0, y |-> 0, pressed |-> FALSE]
    /\ chunk = NoChunk
    /\ decoded = NoCall
    /\ outbox = NoChunk
    /\ hal_mutex = "none"
    /\ state_callback = NoStateCallback
    /\ upd = "idle"
    /\ ipc_running = FALSE
    /\ sock = NoSocket
    /\ rxs = <<>>
    /\ receive_thread = 0
    /\ send_mutex = "none"
    /\ callback_mutex = "none"
    /\ senders = [t \in Senders |-> IdleSender]
    /\ socket = <<>>
    /\ conn = "idle"
    /\ dropped = FALSE
    /\ connect_ret = NoConnect
    /\ set_touch_call = NoTouchCall
    /\ poll = NoPoll
    /\ reader = NoReader

vars == <<motors, controllers, battery, robot_mode, lcd_lines, lcd_buttons,
          lcd_bg_color, lcd_text_color, lcd_initialized, pros_motors, lastOp, nops,
          ticks, streak, running, current_mode, last_mode, mode_thread, threads,
          main_pc, terminated, rx, ipc_connected, disp_initialized, scen, seenAD,
          framebuffer, emitted, wire, last_flush, nio, sim, simticks,
          callbacks, touch, chunk, decoded, outbox,
          hal_mutex, state_callback, upd, ipc_running, sock, rxs,
          receive_thread, send_mutex, callback_mutex, senders, socket, conn,
          dropped, connect_ret, set_touch_call, poll, reader>>

Next ==
    \/ Call_init
    \/ Call_shutdown
    \/ Call_update
    \/ Call_set_motor
    \/ Call_set_motor_velocity
    \/ Call_set_motor_position
    \/ Call_set_motor_gearset
    \/ Call_set_motor_reversed
    \/ Call_set_motor_connected
    \/ Call_set_controller_analog
    \/ Call_set_controller_digital
    \/ Call_set_controller_connected
    \/ Call_set_robot_mode
    \/ Call_lcd_set_text
    \/ Call_lcd_clear
    \/ Call_lcd_clear_line
    \/ Call_lcd_set_button
    \/ Call_lcd_set_background_color
    \/ Call_lcd_set_text_color
    \/ Construct_Motor
    \/ Call_move

Spec == Init /\ [][Next]_vars

\* ================================================= claims on the store

\* C1: for a port in 1..21, set_motor(port, v) stores clamp(v,-127,127) as that
\* motor's commanded voltage and changes no other motor (nor any other field);
\* for a port outside 1..21 it changes no motor state at all.
C1_SetMotorStoresClamp ==
    [][(lastOp'.op = "set_motor" /\ nops' # nops) =>
          LET port == lastOp'.a
              v    == lastOp'.b
              c    == IF v > 127 THEN 127 ELSE IF v < -127 THEN -127 ELSE v
          IN  IF port \in 1..21
              THEN /\ motors'[port].voltage = c
                   /\ \A q \in (1..21) \ {port} : motors'[q] = motors[q]
                   /\ \A f \in (DOMAIN MotorState) \ {"voltage"} :
                          motors'[port][f] = motors[port][f]
              ELSE motors' = motors]_vars

\* a set_motor(1, 200) has stored 127 while another motor holds non-default state
C1_Witness ==
    /\ lastOp.op = "set_motor" /\ lastOp.a = 1 /\ lastOp.b = 200
    /\ motors[1].voltage = 127
    /\ motors[21] # MotorState

\* C2: in every reachable state the commanded voltage of each of the 21 motors
\* lies in [-127,127].
C2_VoltageInRange ==
    \A p \in 1..NUM_MOTORS : motors[p].voltage >= -127 /\ motors[p].voltage <= 127

\* Motor::move(200) on a reversed motor has stored -127
C2_Witness ==
    /\ lastOp.op = "move" /\ lastOp.b = 200
    /\ pros_motors[lastOp.c].reversed
    /\ motors[pros_motors[lastOp.c].port].voltage = -127

\* The last operation was a setter addressed out of range
BadPort(p) == p < 1 \/ p > 21
BadId(i) == i < 0 \/ i > 1
OutOfRangeSetter(op) ==
    \/ /\ op.op \in {"set_motor", "set_motor_velocity", "set_motor_position",
                     "set_motor_gearset", "set_motor_reversed", "set_motor_connected"}
       /\ BadPort(op.a)
    \/ op.op = "set_controller_analog" /\ (BadId(op.a) \/ op.b > 3)
    \/ op.op = "set_controller_digital" /\ (BadId(op.a) \/ op.b >= 18)
    \/ op.op = "set_controller_connected" /\ BadId(op.a)
    \/ op.op \in {"lcd_set_text", "lcd_clear_line"} /\ (op.a < 0 \/ op.a > 7)

BadPorts == {0, 22, 255}
BadIds == {2, 3}
Zero == [n |-> 0, d |-> 1]

\* every getter but get_motor_gearset, addressed out of range, yields zero
GettersZero ==
    /\ \A p \in BadPorts :
          /\ get_motor_voltage(p) = 0
          /\ get_motor_velocity(p) = 0
          /\ get_motor_position(p) = Zero
          /\ get_motor_actual_velocity(p) = Zero
          /\ get_motor_current(p) = 0
          /\ get_motor_temperature(p) = Zero
          /\ get_motor_reversed(p) = FALSE
          /\ is_motor_connected(p) = FALSE
    /\ \A i \in BadIds :
          /\ \A ch \in {0, 4} : get_controller_analog(i, ch) = 0
          /\ \A b \in {6, 18} : get_controller_digital(i, b) = FALSE
          /\ is_controller_connected(i) = FALSE
          /\ get_controller_battery_capacity(i) = 0
          /\ get_controller_battery_level(i) = 0
    /\ \A i \in 0..1 :
          /\ get_controller_analog(i, 4) = 0
          /\ \A b \in 18..19 : get_controller_digital(i, b) = FALSE
    /\ \A l \in {-1, 8} : lcd_get_text(l) = ""

\* C3 as stated: out-of-range setters change nothing and every out-of-range
\* getter, get_motor_gearset included, returns the zero or default value of its
\* field (for the gearset: 0 or the default E_MOTOR_GEARSET_18).
C3_Original ==
    /\ GettersZero
    /\ \A p \in BadPorts : get_motor_gearset(p) \in {0, MotorState.gearset}
    /\ [][/\ (OutOfRangeSetter(lastOp') /\ nops' # nops) => halVars' = halVars
          /\ GettersZero'
          /\ \A p \in BadPorts :
                 get_motor_gearset(p)' \in {0, MotorState.gearset}]_vars

\* C3 (amended): out-of-range setters leave the whole hardware state unchanged;
\* every out-of-range getter returns the zero value of its type (0, 0.0, false,
\* empty string), except get_motor_gearset, which returns the sentinel
\* E_MOTOR_GEARSET_INVALID.
C3_OutOfRangeNoOp ==
    /\ GettersZero
    /\ \A p \in BadPorts : get_motor_gearset(p) = E_MOTOR_GEARSET_INVALID
    /\ [][/\ (OutOfRangeSetter(lastOp') /\ nops' # nops) => halVars' = halVars
          /\ GettersZero'
          /\ \A p \in BadPorts :
                 get_motor_gearset(p)' = E_MOTOR_GEARSET_INVALID]_vars

\* an out-of-range setter has run in a state that holds non-default data
C3_Witness ==
    /\ lastOp.op = "set_motor_gearset" /\ lastOp.a = 22
    /\ motors[1].gearset = E_MOTOR_GEARSET_06
    /\ get_motor_gearset(22) = E_MOTOR_GEARSET_INVALID

\* ================================================= the physics tick
\* The motor under observation, and the commands a routine gives it between ticks
PhysPort == 1
PhysVolts == {-127, 100, 127}
PhysGearsets == {E_MOTOR_GEARSET_36, E_MOTOR_GEARSET_06}

NotMotors ==
    UNCHANGED <<controllers, battery, robot_mode, lcd_lines, lcd_buttons,
                lcd_bg_color, lcd_text_color, lcd_initialized, pros_motors>>

\* a setter call between ticks: a new run of ticks starts after it
Command(op, ms) ==
    /\ nops < MaxOps
    /\ nops' = nops + 1
    /\ lastOp' = op
    /\ motors' = ms
    /\ streak' = [n |-> 0, a0 |-> ms[PhysPort].actual_velocity]
    /\ UNCHANGED <<ticks, orchVars, dispVars, auxVars>>
    /\ NotMotors

Phys_set_motor ==
    \E v \in PhysVolts :
        Command(Op("set_motor", PhysPort, v, 0), set_motor(motors, PhysPort, v))

Phys_set_motor_gearset ==
    \E g \in PhysGearsets :
        Command(Op("set_motor_gearset", PhysPort, g, 0),
                set_motor_gearset(motors, PhysPort, g))

Phys_set_motor_connected ==
    \E c \in BOOLEAN :
        Command(Op("set_motor_connected", PhysPort, IF c THEN 1 ELSE 0, 0),
                set_motor_connected(motors, PhysPort, c))

Phys_update ==
    /\ ticks < MaxTicks
    /\ ticks' = ticks + 1
    /\ lastOp' = Op("update", 0, 0, 0)
    /\ motors' = update(motors)
    /\ streak' = [streak EXCEPT !.n = @ + 1]
    /\ UNCHANGED <<nops, orchVars, dispVars, auxVars>>
    /\ NotMotors

NextPhysics ==
    \/ Phys_set_motor
    \/ Phys_set_motor_gearset
    \/ Phys_set_motor_connected
    \/ Phys_update

SpecPhysics == Init /\ [][NextPhysics]_vars

RECURSIVE RPow(_, _)
RPow(x, k) == IF k = 0 THEN R(1, 1) ELSE RMul(x, RPow(x, k - 1))

\* one tick of a connected motor moves its actual velocity toward the target
\* without passing it
TowardTarget(a, a2, t) ==
    /\ RLe(RAbs(RSub(a2, t)), RAbs(RSub(a, t)))
    /\ RLe(a, t) => (RLe(a, a2) /\ RLe(a2, t))
    /\ RLe(t, a) => (RLe(t, a2) /\ RLe(a2, a))

\* C10 as stated: after N consecutive ticks with constant voltage on a connected
\* motor, actual_velocity has moved monotonically toward the target and
\* |actual_velocity - target| <= (1-0.1)^N.
C10_Original ==
    [][(ticks' = ticks + 1 /\ motors[PhysPort].connected) =>
          LET t == target_velocity(motors[PhysPort])
              a == motors[PhysPort].actual_velocity
              a2 == motors'[PhysPort].actual_velocity
          IN  /\ TowardTarget(a, a2, t)
              /\ RLe(RAbs(RSub(a2, t)), RPow(R(9, 10), streak'.n))]_vars

\* C10 (amended): after N consecutive ticks with constant voltage V on a
\* connected motor whose gearset does not change, actual_velocity has moved
\* monotonically toward target = V/127 * max_velocity(gearset), never passing it,
\* and |actual_velocity - target| = (1-0.1)^N * |v0 - target|, v0 being the
\* actual velocity before the first of the N ticks.
C10_Convergence ==
    [][(ticks' = ticks + 1 /\ motors[PhysPort].connected) =>
          LET t == target_velocity(motors[PhysPort])
              a == motors[PhysPort].actual_velocity
              a2 == motors'[PhysPort].actual_velocity
          IN  /\ TowardTarget(a, a2, t)
              /\ RAbs(RSub(a2, t)) =
                     RMul(RPow(R(9, 10), streak'.n), RAbs(RSub(streak'.a0, t)))]_vars

\* three ticks in a row on a connected motor that was already turning when
\* the run of ticks began and has not reached its target
C10_Witness ==
    /\ streak.n = 3
    /\ motors[PhysPort].connected
    /\ streak.a0 # Zero
    /\ motors[PhysPort].actual_velocity # target_velocity(motors[PhysPort])

\* ================================================= the mode orchestrator (main)
ModeMessages == {"disabled", "autonomous", "opcontrol", "bogus"}

\* on_mode_change with the "disabled" comparison misspelt
on_mode_change_typo(mode) ==
    CASE mode = "disable" -> "DISABLED"
      [] mode = "autonomous" -> "AUTONOMOUS"
      [] mode = "opcontrol" -> "OPCONTROL"
      [] OTHER -> "none"

\* on_mode_change(mode): the RobotMode it stores, "none" when it stores nothing
on_mode_change(mode) ==
    CASE mode = "disabled" -> "DISABLED"
      [] mode = "autonomous" -> "AUTONOMOUS"
      [] mode = "opcontrol" -> "OPCONTROL"
      [] OTHER -> "none"

\* a destructor that lets a joinable thread go on running, as if detached
thread_dtor_detach(t) == FALSE

\* std::thread::~thread(), reached by "delete mode_thread": TRUE when it calls
\* std::terminate, which it does for a thread that is still joinable
thread_dtor(t) == t.joinable

NewThread(h) == [handler |-> h, state |-> "running", joinable |-> TRUE]

\* the mode-execution threads whose handler has not returned
Alive == {i \in DOMAIN threads : threads[i].state = "running"}

\* observer of the scenario "AUTONOMOUS written, then DISABLED, with at most
\* one mode check in between"
ScenWrite(sc, msg) ==
    CASE msg = "autonomous" -> "A"
      [] msg = "disabled" -> IF sc \in {"A", "Ac", "AD"} THEN "AD" ELSE "none"
      [] msg = "opcontrol" -> "none"
      [] OTHER -> sc
ScenCheck(sc) ==
    CASE sc = "A" -> "Ac"
      [] sc = "Ac" -> "none"
      [] OTHER -> sc

OrchFrame == UNCHANGED <<controllers, battery, lcd_buttons, lcd_bg_color,
                         lcd_text_color, pros_motors, lastOp, nops, ticks, streak,
                         dispVars, auxVars>>

\* main(): HAL init, Display init, callbacks, connect (which may fail)
Main_start ==
    /\ main_pc = "start"
    /\ motors' = init_motors
    /\ lcd_lines' = init_lcd_lines
    /\ lcd_initialized' = FALSE
    /\ disp_initialized' = TRUE
    /\ \E ok \in BOOLEAN : ipc_connected' = ok
    /\ main_pc' = "initialize"
    /\ UNCHANGED <<robot_mode, running, current_mode, last_mode, mode_thread,
                   threads, terminated, rx, scen, seenAD>>
    /\ OrchFrame

\* main(): initialize() and competition_initialize(), the default handlers
Main_initialize ==
    /\ main_pc = "initialize"
    /\ LET r0 == lcd_set_text(lcd_clear(lcd_lines), lcd_initialized, 0,
                              "VEX V5 Host Mode")
           r1 == lcd_set_text(r0.lines, r0.initialized, 1, "Ready!")
       IN  lcd_lines' = r1.lines /\ lcd_initialized' = r1.initialized
    /\ main_pc' = "loop"
    /\ UNCHANGED <<motors, robot_mode, running, current_mode, last_mode,
                   mode_thread, threads, terminated, rx, ipc_connected,
                   disp_initialized, scen, seenAD>>
    /\ OrchFrame

\* signal_handler
Signal_handler ==
    /\ running
    /\ ~terminated /\ main_pc # "done"
    /\ running' = FALSE
    /\ UNCHANGED <<motors, robot_mode, lcd_lines, lcd_initialized, current_mode,
                   last_mode, mode_thread, threads, main_pc, terminated, rx,
                   ipc_connected, disp_initialized, scen, seenAD>>
    /\ OrchFrame

\* the receive thread enters on_mode_change: current_mode is stored first
Rx_on_mode_change ==
    \E msg \in ModeMessages :
        /\ ipc_connected /\ ~terminated /\ main_pc \notin {"start", "done"}
        /\ rx.pc = "idle"
        /\ IF on_mode_change(msg) = "none"
           THEN /\ scen' = ScenWrite(scen, msg)
                /\ seenAD' = (seenAD \/ scen' = "AD")
                /\ UNCHANGED <<current_mode, rx>>
           ELSE /\ current_mode' = on_mode_change(msg)
                /\ rx' = [pc |-> "set_robot_mode", msg |-> msg]
                /\ UNCHANGED <<scen, seenAD>>
        /\ UNCHANGED <<motors, robot_mode, lcd_lines, lcd_initialized, running,
                       last_mode, mode_thread, threads, main_pc, terminated,
                       ipc_connected, disp_initialized>>
        /\ OrchFrame

\* ... and then the store: HAL::set_robot_mode
Rx_set_robot_mode ==
    /\ rx.pc = "set_robot_mode" /\ ~terminated
    /\ robot_mode' = on_mode_change(rx.msg)
    /\ rx' = [pc |-> "idle", msg |-> "none"]
    /\ scen' = ScenWrite(scen, rx.msg)
    /\ seenAD' = (seenAD \/ scen' = "AD")
    /\ UNCHANGED <<motors, lcd_lines, lcd_initialized, running, current_mode,
                   last_mode, mode_thread, threads, main_pc, terminated,
                   ipc_connected, disp_initialized>>
    /\ OrchFrame

\* main loop, while (running): HAL update, Display update, process_messages
Main_update ==
    /\ main_pc = "loop" /\ ~terminated
    /\ running
    /\ motors' = update(motors)
    /\ main_pc' = "check"
    /\ UNCHANGED <<robot_mode, lcd_lines, lcd_initialized, running, current_mode,
                   last_mode, mode_thread, threads, terminated, rx, ipc_connected,
                   disp_initialized, scen, seenAD>>
    /\ OrchFrame

\* main loop: the mode change check, then pros::delay(10)
Main_check_mode ==
    /\ main_pc = "check" /\ ~terminated
    /\ scen' = ScenCheck(scen)
    /\ LET mode == current_mode
       IN  IF mode = last_mode
           THEN /\ main_pc' = "loop"
                /\ UNCHANGED <<last_mode, mode_thread, threads, terminated>>
           ELSE IF mode = "DISABLED"
           THEN \* disabled() runs inline
                /\ last_mode' = mode
                /\ main_pc' = "loop"
                /\ UNCHANGED <<mode_thread, threads, terminated>>
           ELSE IF mode_thread # 0 /\ thread_dtor(threads[mode_thread])
           THEN \* delete mode_thread on a joinable thread: std::terminate
                /\ terminated' = TRUE
                /\ threads' = [i \in DOMAIN threads |->
                                  IF threads[i].state = "running"
                                  THEN [threads[i] EXCEPT !.state = "killed"]
                                  ELSE threads[i]]
                /\ main_pc' = "aborted"
                /\ UNCHANGED <<last_mode, mode_thread>>
           ELSE \* new std::thread(autonomous) or new std::thread(opcontrol)
                /\ Len(threads) < MaxThreads
                /\ threads' = Append(
                       IF mode_thread = 0 THEN threads
                       ELSE [threads EXCEPT ![mode_thread].joinable = FALSE],
                       NewThread(IF mode = "AUTONOMOUS" THEN "autonomous"
                                                        ELSE "opcontrol"))
                /\ mode_thread' = Len(threads) + 1
                /\ last_mode' = mode
                /\ main_pc' = "loop"
                /\ UNCHANGED terminated
    /\ UNCHANGED <<motors, robot_mode, lcd_lines, lcd_initialized, running,
                   current_mode, rx, ipc_connected, disp_initialized, seenAD>>
    /\ OrchFrame

\* autonomous(): the selected routine runs to its end and the handler returns
Autonomous_return ==
    \E i \in DOMAIN threads :
        /\ ~terminated
        /\ threads[i].handler = "autonomous" /\ threads[i].state = "running"
        /\ threads' = [threads EXCEPT ![i].state = "finished"]
        /\ UNCHANGED <<motors, robot_mode, lcd_lines, lcd_initialized, running,
                       current_mode, last_mode, mode_thread, main_pc, terminated,
                       rx, ipc_connected, disp_initialized, scen, seenAD>>
        /\ OrchFrame

\* opcontrol(): one test of the while condition; the body prints line 3
Opcontrol_loop ==
    \E i \in DOMAIN threads :
        /\ ~terminated
        /\ threads[i].handler = "opcontrol" /\ threads[i].state = "running"
        /\ IF current_mode = "OPCONTROL" /\ running
           THEN LET r == lcd_set_text(lcd_lines, lcd_initialized, 3,
                                      "L:    0  R:    0")
                IN  /\ lcd_lines' = r.lines
                    /\ lcd_initialized' = r.initialized
                    /\ UNCHANGED threads
           ELSE /\ threads' = [threads EXCEPT ![i].state = "finished"]
                /\ UNCHANGED <<lcd_lines, lcd_initialized>>
        /\ UNCHANGED <<motors, robot_mode, running, current_mode, last_mode,
                       mode_thread, main_pc, terminated, rx, ipc_connected,
                       disp_initialized, scen, seenAD>>
        /\ OrchFrame

\* main loop left: while (running) is false
Main_exit_loop ==
    /\ main_pc = "loop" /\ ~terminated
    /\ ~running
    /\ main_pc' = "cleanup"
    /\ UNCHANGED <<motors, robot_mode, lcd_lines, lcd_initialized, running,
                   current_mode, last_mode, mode_thread, threads, terminated, rx,
                   ipc_connected, disp_initialized, scen, seenAD>>
    /\ OrchFrame

\* cleanup: current_mode = DISABLED
Cleanup_mode ==
    /\ main_pc = "cleanup" /\ ~terminated
    /\ current_mode' = "DISABLED"
    /\ main_pc' = "join"
    /\ UNCHANGED <<motors, robot_mode, lcd_lines, lcd_initialized, running,
                   last_mode, mode_thread, threads, terminated, rx,
                   ipc_connected, disp_initialized, scen, seenAD>>
    /\ OrchFrame

\* cleanup: join (returns once the handler has returned) and delete mode_thread
Cleanup_join ==
    /\ main_pc = "join" /\ ~terminated
    /\ IF mode_thread = 0
       THEN UNCHANGED <<threads, mode_thread>>
       ELSE /\ threads[mode_thread].state = "finished"
            /\ threads' = [threads EXCEPT ![mode_thread].joinable = FALSE]
            /\ mode_thread' = 0
    /\ main_pc' = "disconnect"
    /\ UNCHANGED <<motors, robot_mode, lcd_lines, lcd_initialized, running,
                   current_mode, last_mode, terminated, rx, ipc_connected,
                   disp_initialized, scen, seenAD>>
    /\ OrchFrame

\* cleanup: ipc.disconnect(), which joins the receive thread
Cleanup_disconnect ==
    /\ main_pc = "disconnect" /\ ~terminated
    /\ rx.pc = "idle"
    /\ ipc_connected' = FALSE
    /\ main_pc' = "display"
    /\ UNCHANGED <<motors, robot_mode, lcd_lines, lcd_initialized, running,
                   current_mode, last_mode, mode_thread, threads, terminated, rx,
                   disp_initialized, scen, seenAD>>
    /\ OrchFrame

\* cleanup: Display::shutdown()
Cleanup_display ==
    /\ main_pc = "display" /\ ~terminated
    /\ disp_initialized' = FALSE
    /\ main_pc' = "hal"
    /\ UNCHANGED <<motors, robot_mode, lcd_lines, lcd_initialized, running,
                   current_mode, last_mode, mode_thread, threads, terminated, rx,
                   ipc_connected, scen, seenAD>>
    /\ OrchFrame

\* cleanup: HAL::shutdown(), then return 0
Cleanup_hal ==
    /\ main_pc = "hal" /\ ~terminated
    /\ robot_mode' = "DISABLED"
    /\ main_pc' = "done"
    /\ UNCHANGED <<motors, lcd_lines, lcd_initialized, running, current_mode,
                   last_mode, mode_thread, threads, terminated, rx,
                   ipc_connected, disp_initialized, scen, seenAD>>
    /\ OrchFrame

NextOrch ==
    \/ Main_start
    \/ Main_initialize
    \/ Signal_handler
    \/ Rx_on_mode_change
    \/ Rx_set_robot_mode
    \/ Main_update
    \/ Main_check_mode
    \/ Autonomous_return
    \/ Opcontrol_loop
    \/ Main_exit_loop
    \/ Cleanup_mode
    \/ Cleanup_join
    \/ Cleanup_disconnect
    \/ Cleanup_display
    \/ Cleanup_hal

SpecOrch == Init /\ [][NextOrch]_vars

\* ================================================= claims on the orchestrator

\* C4: in every reachable state at most one mode-execution thread (autonomous
\* or opcontrol) is alive.
C4_AtMostOneModeThread == Cardinality(Alive) <= 1

\* a change from AUTONOMOUS to OPCONTROL was processed while the autonomous
\* handler was still running: the process ended there, and its thread with it
C4_Witness ==
    /\ last_mode = "AUTONOMOUS" /\ current_mode = "OPCONTROL"
    /\ Len(threads) = 1 /\ threads[1].state = "killed"
    /\ terminated

\* C5: once AUTONOMOUS and then DISABLED have been written with at most one
\* mode check in between, the store's mode is DISABLED (until the next write),
\* and from then on no two mode-execution threads are alive.
C5_AutonomousThenDisabled ==
    /\ scen = "AD" => robot_mode = "DISABLED"
    /\ seenAD => Cardinality(Alive) <= 1

\* the check between the two writes started the autonomous handler, which is
\* still running after DISABLED was written and observed
C5_Witness ==
    /\ scen = "AD" /\ rx.pc = "idle"
    /\ last_mode = "DISABLED" /\ robot_mode = "DISABLED"
    /\ Alive # {} /\ \A i \in Alive : threads[i].handler = "autonomous"

\* C6: no sequence of mode changes terminates the process, and main returns
\* only after the shutdown signal has cleared the running flag.
C6_NeverTerminated ==
    /\ ~terminated
    /\ main_pc \in {"cleanup", "join", "disconnect", "display", "hal", "done"}
          => ~running

\* ==================================================== display bridge and IPC

\* disp_flush_cb's test of a cell against the canvas
in_bounds_inclusive(x, y) == x >= 0 /\ x <= WIDTH /\ y >= 0 /\ y <= HEIGHT
in_bounds(x, y) == x >= 0 /\ x < WIDTH /\ y >= 0 /\ y < HEIGHT

\* the source buffer handed to the flush: the pixel at offset k from color_p
color_p(base, k) == (base + k) % 65536

fb_read(fb, i) == IF i \in DOMAIN fb THEN fb[i] ELSE 0
fb_write(fb, i, v) == [j \in (DOMAIN fb) \cup {i} |-> IF j = i THEN v ELSE fb[j]]

\* the copy loop: rows y1..y2, columns x1..x2; color_p advances on every cell,
\* the store happens only for a cell inside the canvas
RECURSIVE flush_copy(_, _, _, _, _, _)
flush_copy(fb, area, base, x, y, k) ==
    IF y > area.y2 THEN fb
    ELSE IF x > area.x2 THEN flush_copy(fb, area, base, area.x1, y + 1, k)
    ELSE flush_copy(IF in_bounds(x, y)
                      THEN fb_write(fb, y * WIDTH + x, color_p(base, k))
                      ELSE fb,
                    area, base, x + 1, y, k + 1)

\* the second loop pushing a pixel for every cell of the rectangle
RECURSIVE flush_pixels_all(_, _, _, _, _)
flush_pixels_all(fb, area, x, y, pixels) ==
    IF y > area.y2 THEN pixels
    ELSE IF x > area.x2 THEN flush_pixels_all(fb, area, area.x1, y + 1, pixels)
    ELSE flush_pixels_all(fb, area, x + 1, y,
                          Append(pixels, fb_read(fb, y * WIDTH + x)))

\* the second loop: update.pixels.push_back for every cell inside the canvas
RECURSIVE flush_pixels(_, _, _, _, _)
flush_pixels(fb, area, x, y, pixels) ==
    IF y > area.y2 THEN pixels
    ELSE IF x > area.x2 THEN flush_pixels(fb, area, area.x1, y + 1, pixels)
    ELSE flush_pixels(fb, area, x + 1, y,
                      IF in_bounds(x, y)
                        THEN Append(pixels, fb_read(fb, y * WIDTH + x))
                        ELSE pixels)

ScreenUpdate(fb, area) ==
    [x1 |-> area.x1, y1 |-> area.y1, x2 |-> area.x2, y2 |-> area.y2,
     pixels |-> flush_pixels(fb, area, area.x1, area.y1, <<>>)]

\* length of what operator<< prints for an int32_t
RECURSIVE Digits(_)
Digits(v) == IF v < 10 THEN 1 ELSE 1 + Digits(v \div 10)
DecLen(v) == IF v < 0 THEN 1 + Digits(-v) ELSE Digits(v)

\* length of base64_encode's result for len bytes: four characters per
\* started group of three
base64_len(len) == ((len + 2) \div 3) * 4

\* a payload is known by its size and the seed of its bytes
\* (byte i is (seed + i) % 256)
Json(size, seed) == [size |-> size, seed |-> seed]

\* send_screen_update: the text it builds, handed to send_message
screen_json(u) ==
    Json(22 + DecLen(u.x1) + 6 + DecLen(u.y1) + 6 + DecLen(u.x2) + 6
            + DecLen(u.y2) + 9 + base64_len(Len(u.pixels) * 2) + 2,
         123)

RECURSIVE Shr8(_, _)
Shr8(n, i) == IF i = 0 THEN n ELSE Shr8(n \div 256, i - 1)

\* send_message: the opcode byte and the length prefix
frame_header_lt(n) ==
    IF n < 125 THEN <<129, n % 256>>
    ELSE IF n < 65535 THEN <<129, 126, Shr8(n, 1) % 256, n % 256>>
    ELSE <<129, 127>> \o [i \in 1..8 |-> Shr8(n, 8 - i) % 256]
frame_header(n) ==
    IF n <= 125 THEN <<129, n % 256>>
    ELSE IF n <= 65535 THEN <<129, 126, Shr8(n, 1) % 256, n % 256>>
    ELSE <<129, 127>> \o [i \in 1..8 |-> Shr8(n, 8 - i) % 256]

\* send_message: nothing when not connected, else header then payload
send_message(connected, w, json) ==
    IF ~connected THEN w
    ELSE Append(w, [header |-> frame_header(json.size), payload |-> json])

XSpans == {<<-1, 0>>, <<0, 1>>, <<479, 480>>, <<480, 481>>}
YSpans == {<<-1, 0>>, <<1, 2>>, <<271, 272>>, <<272, 273>>}
Areas == {[x1 |-> xs[1], y1 |-> ys[1], x2 |-> xs[2], y2 |-> ys[2]] :
            xs \in XSpans, ys \in YSpans}
ColorBases == {1, 65535}
SendSizes == {0, 1, 125, 126, 127, 256, 65535, 65536, 65537, 16909060}
SendSeeds == {0, 65}

DispFrame == UNCHANGED <<halVars, pros_motors, nops, physVars, running,
                         current_mode, last_mode, mode_thread, threads, main_pc,
                         terminated, rx, scen, seenAD, auxVars>>

Call_Display_init ==
    /\ disp_initialized' = TRUE
    /\ UNCHANGED <<lastOp, ipc_connected, dispVars>>
    /\ DispFrame

Call_Display_shutdown ==
    /\ disp_initialized' = FALSE
    /\ UNCHANGED <<lastOp, ipc_connected, dispVars>>
    /\ DispFrame

\* IPCClient::connect: may fail, and returns at once when already connected
Call_connect ==
    /\ \E ok \in BOOLEAN : ipc_connected' = (ipc_connected \/ ok)
    /\ UNCHANGED <<lastOp, disp_initialized, dispVars>>
    /\ DispFrame

Call_disconnect ==
    /\ ipc_connected' = FALSE
    /\ UNCHANGED <<lastOp, disp_initialized, dispVars>>
    /\ DispFrame

\* Display::disp_flush_cb, called by the graphics library of an initialized
\* display
Call_disp_flush_cb ==
    /\ disp_initialized
    /\ nio < MaxIo
    /\ nio' = nio + 1
    /\ \E area \in Areas, base \in ColorBases :
         LET fb == flush_copy(framebuffer, area, base, area.x1, area.y1, 0)
             u  == ScreenUpdate(fb, area)
         IN  /\ framebuffer' = fb
             /\ last_flush' = [n |-> last_flush.n + 1, area |-> area,
                               base |-> base]
             /\ IF ipc_connected
                  THEN /\ emitted' = Append(emitted, u)
                       /\ wire' = send_message(ipc_connected, wire, screen_json(u))
                  ELSE UNCHANGED <<emitted, wire>>
    /\ lastOp' = Op("disp_flush_cb", 0, 0, 0)
    /\ UNCHANGED <<ipc_connected, disp_initialized>>
    /\ DispFrame

NextDisplay ==
    \/ Call_Display_init
    \/ Call_Display_shutdown
    \/ Call_connect
    \/ Call_disconnect
    \/ Call_disp_flush_cb

SpecDisplay == Init /\ [][NextDisplay]_vars

Call_send_message ==
    /\ nio < MaxIo
    /\ nio' = nio + 1
    /\ \E size \in SendSizes, seed \in SendSeeds :
         /\ wire' = send_message(ipc_connected, wire, Json(size, seed))
         /\ lastOp' = Op("send_message", size, seed, 0)
    /\ UNCHANGED <<framebuffer, emitted, last_flush, ipc_connected,
                   disp_initialized>>
    /\ DispFrame

NextFrame ==
    \/ Call_connect
    \/ Call_disconnect
    \/ Call_send_message

SpecFrame == Init /\ [][NextFrame]_vars

\* ======================================================= claims on the flush

InRect(a, x, y) == a.x1 <= x /\ x <= a.x2 /\ a.y1 <= y /\ y <= a.y2

\* C7: a flush writes only the canvas cells inside its rectangle: every index
\* it has written lies in 0..480*272-1, each canvas cell (x,y) of the rectangle
\* holds the source pixel at offset (y-y1)*(x2-x1+1)+(x-x1), and every other
\* cell keeps its value.
C7_FlushWritesIntersection ==
    [][last_flush'.n # last_flush.n =>
         LET a == last_flush'.area
             b == last_flush'.base
         IN  /\ DOMAIN framebuffer' \subseteq 0..(BUFFER_SIZE - 1)
             /\ \A x \in (a.x1)..(a.x2), y \in (a.y1)..(a.y2) :
                  (0 <= x /\ x <= 479 /\ 0 <= y /\ y <= 271) =>
                      /\ (y * 480 + x) \in DOMAIN framebuffer'
                      /\ framebuffer'[y * 480 + x] =
                           color_p(b, (y - a.y1) * (a.x2 - a.x1 + 1) + (x - a.x1))
             /\ \A i \in (DOMAIN framebuffer) \cup (DOMAIN framebuffer') :
                  ~InRect(a, i % 480, i \div 480) =>
                      fb_read(framebuffer', i) = fb_read(framebuffer, i)
    ]_vars

\* a flush of the rectangle over the bottom right corner, one cell of it
\* inside the canvas, after an earlier flush had written other cells
C7_Witness ==
    /\ last_flush.n = 2
    /\ last_flush.area = [x1 |-> 479, y1 |-> 271, x2 |-> 480, y2 |-> 272]
    /\ fb_read(framebuffer, BUFFER_SIZE - 1) = color_p(last_flush.base, 0)
    /\ Cardinality(DOMAIN framebuffer) > 1

\* C8: every emitted ScreenUpdate has its rectangle inside the canvas and
\* carries exactly (x2-x1+1)*(y2-y1+1) pixels.
C8_RecordWithinCanvas ==
    \A i \in 1..Len(emitted) :
        LET u == emitted[i]
        IN  /\ 0 <= u.x1 /\ u.x1 <= u.x2 /\ u.x2 <= 479
            /\ 0 <= u.y1 /\ u.y1 <= u.y2 /\ u.y2 <= 271
            /\ Len(u.pixels) = (u.x2 - u.x1 + 1) * (u.y2 - u.y1 + 1)

\* ====================================================== claims on the frame

RECURSIVE BigEndian(_)
BigEndian(bytes) ==
    IF bytes = <<>> THEN 0
    ELSE BigEndian(SubSeq(bytes, 1, Len(bytes) - 1)) * 256 + bytes[Len(bytes)]

\* C9: send_message on a connected transport writes one frame: byte 0x81, the
\* length prefix chosen by the payload size n (n itself when n <= 125; 126 and
\* n in 2 big-endian bytes when 126 <= n <= 65535; 127 and n in 8 big-endian
\* bytes when n >= 65536), then the payload as given; no mask bit is set.
C9_FrameLayout ==
    [][(lastOp'.op = "send_message" /\ nio' # nio /\ ipc_connected) =>
         LET n == lastOp'.a
             f == wire'[Len(wire')]
             h == f.header
         IN  /\ wire' = Append(wire, f)
             /\ f.payload = Json(n, lastOp'.b)
             /\ h[1] = 129
             /\ h[2] < 128
             /\ \A i \in 1..Len(h) : h[i] \in 0..255
             /\ n <= 125 => Len(h) = 2 /\ h[2] = n
             /\ (126 <= n /\ n <= 65535) =>
                    Len(h) = 4 /\ h[2] = 126 /\ BigEndian(SubSeq(h, 3, 4)) = n
             /\ n >= 65536 =>
                    Len(h) = 10 /\ h[2] = 127 /\ BigEndian(SubSeq(h, 3, 10)) = n
    ]_vars

\* a 65535-byte payload went out with the 16-bit prefix and then a 65536-byte
\* payload with the 64-bit prefix
C9_Witness ==
    /\ Len(wire) = 2
    /\ wire[1].payload.size = 65535 /\ Len(wire[1].header) = 4
    /\ wire[2].payload.size = 65536 /\ Len(wire[2].header) = 10

\* ================================================= a long run of ticks

\* the body of HAL::update's loop with the smoothing factor 0.2
update_motor_dec_alpha(m) ==
    IF ~m.connected THEN m
    ELSE LET maxv   == max_velocity(m.gearset)
             target == DMul(DDiv(DInt(m.voltage), 127), maxv)
             actual == DAdd(DDiv(DMul(m.actual_velocity, 8), 10),
                            DDiv(DMul(target, 2), 10))
             pos    == DAdd(m.position, DDiv(DMul(actual, 6), 100))
             cur    == DTrunc(DMul(DAbs(DDiv(actual, maxv)), 2000))
             temp   == DAdd(DInt(25), DMul(DDiv(DInt(Abs(cur)), 2500), 30))
         IN  [m EXCEPT !.actual_velocity = actual, !.position = pos,
                       !.current = cur, !.temperature = temp]
\* the body of HAL::update's loop, in long decimals
update_motor_dec(m) ==
    IF ~m.connected THEN m
    ELSE LET maxv   == max_velocity(m.gearset)
             target == DMul(DDiv(DInt(m.voltage), 127), maxv)
             actual == DAdd(DDiv(DMul(m.actual_velocity, 9), 10),
                            DDiv(target, 10))
             pos    == DAdd(m.position, DDiv(DMul(actual, 6), 100))
             cur    == DTrunc(DMul(DAbs(DDiv(actual, maxv)), 2000))
             temp   == DAdd(DInt(25), DMul(DDiv(DInt(Abs(cur)), 2500), 30))
         IN  [m EXCEPT !.actual_velocity = actual, !.position = pos,
                       !.current = cur, !.temperature = temp]

\* full-scale and zero voltages: their targets are whole numbers of RPM
ScenVolts == {-127, 0, 127}
ScenGearsets == {E_MOTOR_GEARSET_36, E_MOTOR_GEARSET_18, E_MOTOR_GEARSET_06}

ScenFrame == UNCHANGED <<halVars, pros_motors, lastOp, nops, physVars, orchVars,
                         dispVars, parseVars, lockVars, ipcVars, obsVars>>

\* the commands of the scenario come first, the run of ticks after them
Scen_set_motor ==
    /\ simticks = 0
    /\ \E v \in ScenVolts : sim' = [sim EXCEPT !.voltage = clamp(v, -127, 127)]
    /\ UNCHANGED simticks
    /\ ScenFrame

Scen_set_motor_gearset ==
    /\ simticks = 0
    /\ \E g \in ScenGearsets : sim' = [sim EXCEPT !.gearset = g]
    /\ UNCHANGED simticks
    /\ ScenFrame

Scen_set_motor_connected ==
    /\ simticks = 0
    /\ \E c \in BOOLEAN : sim' = [sim EXCEPT !.connected = c]
    /\ UNCHANGED simticks
    /\ ScenFrame

Scen_update ==
    /\ simticks < ScenTicks
    /\ simticks' = simticks + 1
    /\ sim' = update_motor_dec(sim)
    /\ ScenFrame

NextScenario ==
    \/ Scen_set_motor
    \/ Scen_set_motor_gearset
    \/ Scen_set_motor_connected
    \/ Scen_update

SpecScenario == Init /\ [][NextScenario]_vars

DBetween(x, lo, hi) == DLe(lo, x) /\ DLe(x, hi)

\* C11 as stated: from the initialised store, set_motor(1, 127) and 50 ticks
\* with gearset 18:1 leave actual_velocity about 199.97 RPM, current about
\* 2000 mA and temperature about 49 degrees ("about": within one percent).
C11_Original ==
    (simticks = 50 /\ sim.voltage = 127 /\ sim.gearset = E_MOTOR_GEARSET_18) =>
        /\ DBetween(sim.actual_velocity, DInt(198), DInt(202))
        /\ 1980 <= sim.current /\ sim.current <= 2020
        /\ DBetween(sim.temperature, DDiv(DInt(4851), 100), DDiv(DInt(4949), 100))

\* C11 (amended): from the initialised store, with motor 1 connected,
\* set_motor(1, 127) and 50 ticks with gearset 18:1 leave actual_velocity
\* 200*(1-0.9^50) = 198.969..., current 1989 mA and temperature 48.868 degrees;
\* without the connection the motor stays at rest: 0 RPM, 0 mA, 25 degrees.
C11_FiftyTicks ==
    (simticks = 50 /\ sim.voltage = 127 /\ sim.gearset = E_MOTOR_GEARSET_18) =>
        IF sim.connected
          THEN /\ DBetween(sim.actual_velocity, DDiv(DInt(1989692), 10000),
                                                DDiv(DInt(1989693), 10000))
               /\ sim.current = 1989
               /\ sim.temperature = DDiv(DInt(48868), 1000)
          ELSE /\ sim.actual_velocity = DInt(0)
               /\ sim.current = 0
               /\ sim.temperature = DInt(25)

\* the fiftieth tick of a connected motor 1 at full voltage on the 18:1 gearset
C11_Witness ==
    /\ simticks = 50 /\ sim.connected
    /\ sim.voltage = 127 /\ sim.gearset = E_MOTOR_GEARSET_18
    /\ sim.current > 0

\* ========================================================= text and numbers

\* A std::string is the sequence of its characters. Positions are counted from
\* 0 as in the code; npos is the largest position value.
npos == 2147483647

Min(a, b) == IF a < b THEN a ELSE b

\* std::string::find(pat, from): the first position at or after from where pat
\* occurs, npos when there is none
find_from(s, pat, from) ==
    LET at == {i \in from..(Len(s) - Len(pat)) : SubSeq(s, i + 1, i + Len(pat)) = pat}
    IN  IF at = {} THEN npos
        ELSE CHOOSE i \in at : \A j \in at : i <= j
find(s, pat) == find_from(s, pat, 0)

\* std::string::substr(pos, count), for pos <= size()
substr(s, pos, count) == SubSeq(s, pos + 1, Min(Len(s), pos + Min(count, npos - pos)))

DigitChars == <<"0", "1", "2", "3", "4", "5", "6", "7", "8", "9">>
IsDigit(c) == \E d \in 1..10 : DigitChars[d] = c
DigitValue(c) == (CHOOSE d \in 1..10 : DigitChars[d] = c) - 1
IsSpace(c) == c = " "

\* std::stoi: leading spaces, an optional sign, then decimal digits up to the
\* first other character; invalid_argument when there is no digit,
\* out_of_range when the number does not fit in int
RECURSIVE stoi_digits(_, _, _, _)
stoi_digits(s, i, neg, acc) ==
    IF i > Len(s) \/ ~IsDigit(s[i])
      THEN [ok |-> TRUE, value |-> IF neg THEN -acc ELSE acc, error |-> "none"]
    ELSE IF acc > 214748364
            \/ (acc = 214748364 /\ DigitValue(s[i]) > (IF neg THEN 8 ELSE 7))
      THEN [ok |-> FALSE, value |-> 0, error |-> "out_of_range"]
    ELSE stoi_digits(s, i + 1, neg, acc * 10 + DigitValue(s[i]))
RECURSIVE stoi_from(_, _)
stoi_from(s, i) ==
    IF i <= Len(s) /\ IsSpace(s[i]) THEN stoi_from(s, i + 1)
    ELSE LET signed == i <= Len(s) /\ s[i] \in {"+", "-"}
             neg == signed /\ s[i] = "-"
             j == IF signed THEN i + 1 ELSE i
         IN  IF j > Len(s) \/ ~IsDigit(s[j])
               THEN [ok |-> FALSE, value |-> 0, error |-> "invalid_argument"]
               ELSE stoi_digits(s, j, neg, 0)
stoi(s) == stoi_from(s, 1)

\* conversion of an int to int16_t
ToInt16(v) == ((v + 32768) % 65536) - 32768

\* operator<< of an int
RECURSIVE utoa(_)
utoa(v) == IF v < 10 THEN <<DigitChars[v + 1]>>
           ELSE utoa(v \div 10) \o <<DigitChars[(v % 10) + 1]>>
itoa(v) == IF v < 0 THEN <<"-">> \o utoa(-v) ELSE utoa(v)

\* operator<< of a double at the default precision of 6 significant digits,
\* for a value given in thousandths and below 1000 in magnitude: fixed
\* notation, trailing zeros and a bare decimal point dropped
RECURSIVE strip_zeros(_)
strip_zeros(s) ==
    IF s # <<>> /\ s[Len(s)] = "0" THEN strip_zeros(SubSeq(s, 1, Len(s) - 1)) ELSE s
dtoa(k) ==
    LET a == Abs(k)
        frac == strip_zeros(<<DigitChars[((a \div 100) % 10) + 1],
                              DigitChars[((a \div 10) % 10) + 1],
                              DigitChars[(a % 10) + 1]>>)
    IN  (IF k < 0 THEN <<"-">> ELSE <<>>) \o utoa(a \div 1000)
          \o (IF frac = <<>> THEN <<>> ELSE <<".">> \o frac)

\* the literals of ipc.cpp
T_type_touch ==
    <<"\"", "t", "y", "p", "e", "\"", ":", "\"", "t", "o", "u", "c", "h",
      "\"">>
T_x ==
    <<"\"", "x", "\"", ":">>
T_y ==
    <<"\"", "y", "\"", ":">>
T_pressed ==
    <<"\"", "p", "r", "e", "s", "s", "e", "d", "\"", ":">>
T_true ==
    <<"t", "r", "u", "e">>
T_type_controller ==
    <<"\"", "t", "y", "p", "e", "\"", ":", "\"", "c", "o", "n", "t", "r",
      "o", "l", "l", "e", "r", "\"">>
T_type_mode ==
    <<"\"", "t", "y", "p", "e", "\"", ":", "\"", "m", "o", "d", "e", "\"">>
T_value ==
    <<"\"", "v", "a", "l", "u", "e", "\"", ":", "\"">>
T_quote ==
    <<"\"">>
T_type_select_auto ==
    <<"\"", "t", "y", "p", "e", "\"", ":", "\"", "s", "e", "l", "e", "c",
      "t", "_", "a", "u", "t", "o", "\"">>
T_category ==
    <<"\"", "c", "a", "t", "e", "g", "o", "r", "y", "\"", ":", "\"">>
T_index ==
    <<"\"", "i", "n", "d", "e", "x", "\"", ":">>
T_motor_port ==
    <<"{", "\"", "t", "y", "p", "e", "\"", ":", "\"", "m", "o", "t", "o",
      "r", "\"", ",", "\"", "p", "o", "r", "t", "\"", ":">>
T_voltage ==
    <<",", "\"", "v", "o", "l", "t", "a", "g", "e", "\"", ":">>
T_velocity ==
    <<",", "\"", "v", "e", "l", "o", "c", "i", "t", "y", "\"", ":">>
T_position ==
    <<",", "\"", "p", "o", "s", "i", "t", "i", "o", "n", "\"", ":">>
T_close ==
    <<"}">>
T_disabled ==
    <<"d", "i", "s", "a", "b", "l", "e", "d">>
T_autonomous ==
    <<"a", "u", "t", "o", "n", "o", "m", "o", "u", "s">>
T_opcontrol ==
    <<"o", "p", "c", "o", "n", "t", "r", "o", "l">>

\* ==================================================== the inbound decode pass

CallbackKinds == {"touch", "controller", "mode", "select_auto"}

IsThrown(r) == r.kind \in {"invalid_argument", "out_of_range"}

\* the touch branch; g holds what the uninitialised TouchInput happens to hold
parse_touch(json, g) ==
    LET xpos == find(json, T_x)
        ypos == find(json, T_y)
        ppos == find(json, T_pressed)
        x == IF xpos # npos THEN stoi(substr(json, xpos + 4, npos))
             ELSE [ok |-> TRUE, value |-> g.x, error |-> "none"]
        y == IF ypos # npos THEN stoi(substr(json, ypos + 4, npos))
             ELSE [ok |-> TRUE, value |-> g.y, error |-> "none"]
        pressed == IF ppos # npos THEN substr(json, ppos + 10, 4) = T_true
                   ELSE g.pressed
    IN  IF ~x.ok THEN Thrown(x.error)
        ELSE IF ~y.ok THEN Thrown(y.error)
        ELSE Call("touch", ToInt16(x.value), ToInt16(y.value),
                  IF pressed THEN 1 ELSE 0, 0, 0, <<>>)

\* the controller branch: ControllerInput input = {0, 0, 0, 0, 0}
parse_controller(json) == Call("controller", 0, 0, 0, 0, 0, <<>>)

\* the mode branch taking the value one character early
parse_mode_early(json) ==
    LET vpos == find(json, T_value)
        start == vpos + 8
        end == find_from(json, T_quote, start)
    IN  IF vpos = npos THEN NoCall
        ELSE Call("mode", 0, 0, 0, 0, 0, substr(json, start, end - start))

parse_mode(json) ==
    LET vpos == find(json, T_value)
        start == vpos + 9
        end == find_from(json, T_quote, start)
    IN  IF vpos = npos THEN NoCall
        ELSE Call("mode", 0, 0, 0, 0, 0, substr(json, start, end - start))

parse_select_auto(json) ==
    LET cpos == find(json, T_category)
        ipos == find(json, T_index)
        cstart == cpos + 12
        cend == find_from(json, T_quote, cstart)
        index == stoi(substr(json, ipos + 8, npos))
    IN  IF cpos = npos \/ ipos = npos THEN NoCall
        ELSE IF ~index.ok THEN Thrown(index.error)
        ELSE Call("select_auto", index.value, 0, 0, 0, 0,
                  substr(json, cstart, cend - cstart))

\* parse_message without the tests of the callbacks
parse_message_unguarded(json, cbs, g) ==
    IF find(json, T_type_touch) # npos THEN parse_touch(json, g)
    ELSE IF find(json, T_type_controller) # npos THEN parse_controller(json)
    ELSE IF find(json, T_type_mode) # npos THEN parse_mode(json)
    ELSE IF find(json, T_type_select_auto) # npos THEN parse_select_auto(json)
    ELSE NoCall

\* parse_message probing for the mode record before the touch record
parse_message_mode_first(json, cbs, g) ==
    IF find(json, T_type_mode) # npos
      THEN IF "mode" \in cbs THEN parse_mode(json) ELSE NoCall
    ELSE IF find(json, T_type_touch) # npos
      THEN IF "touch" \in cbs THEN parse_touch(json, g) ELSE NoCall
    ELSE IF find(json, T_type_controller) # npos
      THEN IF "controller" \in cbs THEN parse_controller(json) ELSE NoCall
    ELSE IF find(json, T_type_select_auto) # npos
      THEN IF "select_auto" \in cbs THEN parse_select_auto(json) ELSE NoCall
    ELSE NoCall

\* IPCClient::parse_message with the callbacks cbs registered
parse_message(json, cbs, g) ==
    IF find(json, T_type_touch) # npos
      THEN IF "touch" \in cbs THEN parse_touch(json, g) ELSE NoCall
    ELSE IF find(json, T_type_controller) # npos
      THEN IF "controller" \in cbs THEN parse_controller(json) ELSE NoCall
    ELSE IF find(json, T_type_mode) # npos
      THEN IF "mode" \in cbs THEN parse_mode(json) ELSE NoCall
    ELSE IF find(json, T_type_select_auto) # npos
      THEN IF "select_auto" \in cbs THEN parse_select_auto(json) ELSE NoCall
    ELSE NoCall

\* IPCClient::send_motor_telemetry: the record it builds; velocity and
\* position in thousandths
motor_json(port, voltage, velocity, position) ==
    T_motor_port \o itoa(port) \o T_voltage \o itoa(voltage)
      \o T_velocity \o dtoa(velocity) \o T_position \o dtoa(position)
      \o T_close

\* on_controller: bit k of input.buttons goes to the button ButtonOfBit[k + 1]
\* (A, B, X, Y, UP, DOWN, LEFT, RIGHT, L1, L2, R1, R2)
ButtonOfBit == <<17, 15, 14, 16, 10, 11, 12, 13, 6, 7, 8, 9>>
RECURSIVE Pow2(_)
Pow2(k) == IF k = 0 THEN 1 ELSE 2 * Pow2(k - 1)
BitSet(b, k) == (b \div Pow2(k)) % 2 = 1
RECURSIVE on_controller_buttons(_, _, _)
on_controller_buttons(cs, buttons, k) ==
    IF k > 11 THEN cs
    ELSE on_controller_buttons(
             set_controller_digital(cs, 0, ButtonOfBit[k + 1], BitSet(buttons, k)),
             buttons, k + 1)
on_controller(cs, lx, ly, rx_, ry, buttons) ==
    on_controller_buttons(
        set_controller_analog(
            set_controller_analog(
                set_controller_analog(
                    set_controller_analog(cs, 0, 0, lx), 0, 1, ly), 0, 2, rx_),
            0, 3, ry),
        buttons, 0)

\* the mode name on_mode_change compares with its three literals
mode_name(text) ==
    CASE text = T_disabled -> "disabled"
      [] text = T_autonomous -> "autonomous"
      [] text = T_opcontrol -> "opcontrol"
      [] OTHER -> "bogus"

\* ---- the chunks a peer sends
P_touch_open ==
    <<"{", "\"", "t", "y", "p", "e", "\"", ":", "\"", "t", "o", "u", "c",
      "h", "\"">>
P_x_null ==
    <<",", "\"", "x", "\"", ":", "n", "u", "l", "l">>
P_x_70000 ==
    <<",", "\"", "x", "\"", ":", "7", "0", "0", "0", "0">>
P_x_huge ==
    <<",", "\"", "x", "\"", ":", "9", "9", "9", "9", "9", "9", "9", "9", "9",
      "9", "9">>
P_y_neg ==
    <<",", "\"", "y", "\"", ":", " ", "-", "7">>
P_y_text ==
    <<",", "\"", "y", "\"", ":", "\"", "5", "0", "\"">>
P_pressed_true ==
    <<",", "\"", "p", "r", "e", "s", "s", "e", "d", "\"", ":", "t", "r", "u",
      "e">>
P_pressed_false ==
    <<",", "\"", "p", "r", "e", "s", "s", "e", "d", "\"", ":", "f", "a", "l",
      "s", "e">>
P_controller_lx ==
    <<"{", "\"", "t", "y", "p", "e", "\"", ":", "\"", "c", "o", "n", "t",
      "r", "o", "l", "l", "e", "r", "\"", ",", "\"", "a", "n", "a", "l", "o",
      "g", "\"", ":", "{", "\"", "l", "x", "\"", ":">>
P_ly ==
    <<",", "\"", "l", "y", "\"", ":">>
P_rx ==
    <<",", "\"", "r", "x", "\"", ":">>
P_ry ==
    <<",", "\"", "r", "y", "\"", ":">>
P_digital ==
    <<"}", ",", "\"", "d", "i", "g", "i", "t", "a", "l", "\"", ":">>
P_mode_value ==
    <<"{", "\"", "t", "y", "p", "e", "\"", ":", "\"", "m", "o", "d", "e",
      "\"", ",", "\"", "v", "a", "l", "u", "e", "\"", ":", "\"">>
P_mode_only ==
    <<"{", "\"", "t", "y", "p", "e", "\"", ":", "\"", "m", "o", "d", "e",
      "\"", "}">>
P_bogus ==
    <<"p", "r", "a", "c", "t", "i", "c", "e">>
P_quote_close ==
    <<"\"", "}">>
P_select_auto_open ==
    <<"{", "\"", "t", "y", "p", "e", "\"", ":", "\"", "s", "e", "l", "e",
      "c", "t", "_", "a", "u", "t", "o", "\"">>
P_category_match ==
    <<",", "\"", "c", "a", "t", "e", "g", "o", "r", "y", "\"", ":", "\"",
      "m", "a", "t", "c", "h", "\"">>
P_index_0 ==
    <<",", "\"", "i", "n", "d", "e", "x", "\"", ":", "0">>
P_index_12 ==
    <<",", "\"", "i", "n", "d", "e", "x", "\"", ":", "1", "2">>
P_index_text ==
    <<",", "\"", "i", "n", "d", "e", "x", "\"", ":", "\"", "a", "\"">>
P_hello ==
    <<"h", "e", "l", "l", "o">>

TouchChunks ==
    {Chunk("touch", <<>>, P_touch_open \o xs \o ys \o ps \o T_close) :
        xs \in {<<>>, P_x_70000, P_x_null},
        ys \in {<<>>, P_y_neg, P_y_text},
        ps \in {<<>>, P_pressed_true}}
      \cup {Chunk("touch", <<>>, P_touch_open \o P_x_huge \o P_pressed_false \o T_close)}

\* the controller record of the protocol description
controller_json(lx, ly, rx_, ry, b) ==
    P_controller_lx \o itoa(lx) \o P_ly \o itoa(ly) \o P_rx \o itoa(rx_)
      \o P_ry \o itoa(ry) \o P_digital \o itoa(b) \o T_close
ControllerChunks ==
    {Chunk("controller", <<lx, ly, 0 - lx, 0, b>>, controller_json(lx, ly, 0 - lx, 0, b)) :
        lx \in {0, 10, 128}, ly \in {0, -127}, b \in {0, 2049}}

ModeChunks ==
    {Chunk("mode", <<>>, P_mode_value \o name \o ending) :
        name \in {T_disabled, T_autonomous, T_opcontrol, P_bogus},
        ending \in {P_quote_close, <<>>}}
      \cup {Chunk("mode", <<>>, P_mode_only)}

SelectAutoChunks ==
    {Chunk("select_auto", <<>>, P_select_auto_open \o cs \o is \o T_close) :
        cs \in {<<>>, P_category_match},
        is \in {<<>>, P_index_0, P_index_12, P_index_text}}

OtherChunks == {Chunk("other", <<>>, P_hello), Chunk("other", <<>>, <<>>)}

Chunks == TouchChunks \cup ControllerChunks \cup ModeChunks
            \cup SelectAutoChunks \cup OtherChunks

\* values an uninitialised TouchInput may hold
NoGarbage == [x |-> 0, y |-> 0, pressed |-> FALSE]
Garbage == {NoGarbage, [x |-> -12851, y |-> 32767, pressed |-> TRUE]}

TelemetryPorts == {1, 21, 255}
TelemetryVolts == {-127, 100}
TelemetryVelocities == {1500, -198969}
TelemetryPositions == {0, 60}

TelemetryChunks ==
    {Chunk("motor", <<port, voltage, velocity, position>>,
           motor_json(port, voltage, velocity, position)) :
        port \in TelemetryPorts, voltage \in TelemetryVolts,
        velocity \in TelemetryVelocities, position \in TelemetryPositions}

ParseFrame == UNCHANGED <<motors, battery, lcd_lines, lcd_buttons, lcd_bg_color,
                          lcd_text_color, lcd_initialized, pros_motors, lastOp,
                          nops, physVars, running, last_mode, mode_thread,
                          threads, main_pc, rx, disp_initialized, scen, seenAD,
                          framebuffer, emitted, last_flush, scenVars, lockVars,
                          ipcVars, obsVars>>

\* IPCClient::set_touch_callback and its three siblings
Call_set_callback ==
    /\ \E k \in CallbackKinds : callbacks' = callbacks \cup {k}
    /\ UNCHANGED <<controllers, robot_mode, current_mode, terminated,
                   ipc_connected, wire, nio, chunk, decoded, touch, outbox>>
    /\ ParseFrame

Call_send_motor_telemetry ==
    /\ ~terminated
    /\ nio < MaxIo
    /\ nio' = nio + 1
    /\ \E c \in TelemetryChunks :
         /\ outbox' = c
         /\ wire' = send_message(ipc_connected, wire, Json(Len(c.text), 123))
    /\ UNCHANGED <<controllers, robot_mode, current_mode, terminated,
                   ipc_connected, callbacks, chunk, decoded, touch>>
    /\ ParseFrame

\* parse_message on every chunk a peer may send, computed once for each set of
\* registered callbacks; only the touch branch reads the uninitialised record
Decoded(c, g, cbs) == [chunk |-> c, result |-> parse_message(c.text, cbs, g)]
Deliveries ==
    [cbs \in SUBSET CallbackKinds |->
        {Decoded(c, g, cbs) : c \in {t \in Chunks : t.src = "touch"}, g \in Garbage}
          \cup {Decoded(c, NoGarbage, cbs) : c \in {t \in Chunks : t.src # "touch"}}]
      @@ <<>>
Echoes ==
    [cbs \in SUBSET CallbackKinds |->
        {Decoded(c, NoGarbage, cbs) : c \in TelemetryChunks}] @@ <<>>

\* the receive thread: one chunk read and given to parse_message, and the
\* callback it invokes run to its end; an exception leaves receive_thread,
\* which is the end of the process
Deliver(d) ==
    LET r == d.result
    IN  /\ chunk' = d.chunk
        /\ decoded' = r
        /\ terminated' = IsThrown(r)
        /\ touch' = IF r.kind = "touch"
                      THEN [x |-> r.a, y |-> r.b, pressed |-> r.c = 1]
                      ELSE touch
        /\ controllers' = IF r.kind = "controller"
                            THEN on_controller(controllers, r.a, r.b, r.c, r.d, r.e)
                            ELSE controllers
        /\ IF r.kind = "mode" /\ on_mode_change(mode_name(r.text)) # "none"
             THEN /\ current_mode' = on_mode_change(mode_name(r.text))
                  /\ robot_mode' = on_mode_change(mode_name(r.text))
             ELSE UNCHANGED <<current_mode, robot_mode>>
        /\ UNCHANGED <<ipc_connected, wire, nio, callbacks, outbox>>
        /\ ParseFrame

Receive_chunk ==
    /\ ipc_connected /\ ~terminated
    /\ \E d \in Deliveries[callbacks] : Deliver(d)

\* the peer sends back the last record it was sent
Receive_echo ==
    /\ ipc_connected /\ ~terminated
    /\ outbox # NoChunk
    /\ \E d \in Echoes[callbacks] : d.chunk = outbox /\ Deliver(d)

NextParse ==
    \/ Call_connect
    \/ Call_set_callback
    \/ Receive_chunk

SpecParse == Init /\ [][NextParse]_vars

NextTelemetry ==
    \/ Call_connect
    \/ Call_set_callback
    \/ Call_send_motor_telemetry
    \/ Receive_echo

SpecTelemetry == Init /\ [][NextTelemetry]_vars

\* ============================================ HAL::_mutex and the callback

\* the callables a client may register: one that touches no HAL state, and
\* ones that read a motor's voltage (ports on both sides of the range test)
CallbackPorts == {0, 1, 21, 22}
StateCallbacks ==
    {StateCallback(FALSE, 0)} \cup {StateCallback(TRUE, p) : p \in CallbackPorts}

\* what locking a std::mutex does: a free mutex is taken; a mutex owned by
\* another thread makes the caller wait; one owned by the caller is undefined
\* behaviour, which the builds turn into a wait for ever or a std::system_error
RelockOutcomes == {"deadlock", "system_error"}
lock_guard(owner, t) ==
    IF owner = "none" THEN {"acquired"}
    ELSE IF owner = t THEN RelockOutcomes
    ELSE {"wait"}

LockFrame == UNCHANGED <<controllers, battery, robot_mode, lcd_lines, lcd_buttons,
                         lcd_bg_color, lcd_text_color, lcd_initialized,
                         pros_motors, streak, running, current_mode, last_mode,
                         mode_thread, threads, main_pc, rx, ipc_connected,
                         disp_initialized, scen, seenAD, dispVars, scenVars,
                         parseVars, ipcVars, obsVars>>

\* HAL::set_state_callback, called by the main thread between two updates
Lock_set_state_callback ==
    /\ ~terminated /\ upd = "idle"
    /\ "acquired" \in lock_guard(hal_mutex, "main")
    /\ \E cb \in StateCallbacks \cup {NoStateCallback} : state_callback' = cb
    /\ lastOp' = Op("set_state_callback", 0, 0, 0)
    /\ UNCHANGED <<motors, nops, ticks, terminated, hal_mutex, upd>>
    /\ LockFrame

\* a setter called by a mode thread: it takes the mutex, stores and releases
Lock_set_motor ==
    /\ ~terminated /\ nops < MaxOps
    /\ "acquired" \in lock_guard(hal_mutex, "mode")
    /\ \E v \in PhysVolts :
         /\ motors' = set_motor(motors, PhysPort, v)
         /\ lastOp' = Op("set_motor", PhysPort, v, 0)
    /\ nops' = nops + 1
    /\ UNCHANGED <<ticks, terminated, lockVars>>
    /\ LockFrame

Lock_set_motor_connected ==
    /\ ~terminated /\ nops < MaxOps
    /\ "acquired" \in lock_guard(hal_mutex, "mode")
    /\ motors' = set_motor_connected(motors, PhysPort, TRUE)
    /\ lastOp' = Op("set_motor_connected", PhysPort, 1, 0)
    /\ nops' = nops + 1
    /\ UNCHANGED <<ticks, terminated, lockVars>>
    /\ LockFrame

\* HAL::update, line 57: the lock_guard of the whole function
Upd_lock ==
    /\ ~terminated /\ upd = "idle" /\ ticks < MaxTicks
    /\ "acquired" \in lock_guard(hal_mutex, "main")
    /\ hal_mutex' = "main"
    /\ upd' = "sweep"
    /\ UNCHANGED <<motors, lastOp, nops, ticks, terminated, state_callback>>
    /\ LockFrame

\* lines 60-87: the sweep over the motors
Upd_sweep ==
    /\ ~terminated /\ upd = "sweep"
    /\ motors' = update(motors)
    /\ ticks' = ticks + 1
    /\ lastOp' = Op("update", 0, 0, 0)
    /\ upd' = "notify"
    /\ UNCHANGED <<nops, terminated, hal_mutex, state_callback>>
    /\ LockFrame

\* lines 90-92: with no callback the function returns and the guard releases
\* the mutex; with one, the callable is entered with the guard still alive
Upd_notify ==
    /\ ~terminated /\ upd = "notify"
    /\ IF state_callback.registered
         THEN upd' = "callback" /\ hal_mutex' = hal_mutex
         ELSE upd' = "idle" /\ hal_mutex' = "none"
    /\ UNCHANGED <<motors, lastOp, nops, ticks, terminated, state_callback>>
    /\ LockFrame

\* the body of the callable: nothing, or HAL::get_motor_voltage(port), which
\* returns 0 before locking for a port out of range and locks otherwise
Callback_body ==
    /\ ~terminated /\ upd = "callback"
    /\ IF ~state_callback.getter
           \/ state_callback.port < 1 \/ state_callback.port > 21
         THEN upd' = "return" /\ terminated' = terminated
         ELSE \E o \in lock_guard(hal_mutex, "main") :
                /\ upd' = (IF o = "acquired" THEN "return" ELSE "blocked")
                /\ terminated' = (o = "system_error")
    /\ lastOp' = Op("get_motor_voltage", state_callback.port,
                    get_motor_voltage(state_callback.port), 0)
    /\ UNCHANGED <<motors, nops, ticks, hal_mutex, state_callback>>
    /\ LockFrame

\* the callable returned: update() returns and its guard releases the mutex
Upd_return ==
    /\ ~terminated /\ upd = "return"
    /\ upd' = "idle"
    /\ hal_mutex' = "none"
    /\ UNCHANGED <<motors, lastOp, nops, ticks, terminated, state_callback>>
    /\ LockFrame

NextLock ==
    \/ Lock_set_state_callback
    \/ Lock_set_motor
    \/ Lock_set_motor_connected
    \/ Upd_lock
    \/ Upd_sweep
    \/ Upd_notify
    \/ Callback_body
    \/ Upd_return

SpecLock == Init /\ [][NextLock]_vars

\* C13: the store holds no lock while the state-changed callback runs, so a
\* callback that calls a HAL getter returns and update() completes: the main
\* thread is never stuck on the store's own mutex nor ended by it.
C13_NoLockAcrossCallback ==
    /\ upd = "callback" => hal_mutex = "none"
    /\ upd # "blocked"
    /\ ~terminated

\* ================================================== the transport's threads

RxNames == <<"rx1", "rx2", "rx3", "rx4", "rx5">>
\* the kinds registered and received in the runs of the threads: the four
\* branches of parse_message lock and call alike
IpcKinds == {"touch", "mode"}
InboundKinds == IpcKinds \cup {"other"}
\* what a registered inbound callable may do: return, or register a callback
CallbackBodies == {"plain", "set_callback"}

\* receive_thread, line 157: the loop test, made when the thread starts and
\* after each pass; the thread blocks in recv() or leaves the loop
loop_test(run, connected) == IF run /\ connected THEN "recv" ELSE "exit"

IpcFrame == UNCHANGED <<halVars, pros_motors, lastOp, nops, physVars, running,
                        current_mode, last_mode, mode_thread, threads, main_pc,
                        rx, disp_initialized, scen, seenAD, framebuffer, emitted,
                        wire, last_flush, scenVars, touch, chunk, decoded, outbox,
                        lockVars, obsVars>>

\* line 95: `_socket_fd = socket(...)` overwrites the descriptor the field
\* holds; a descriptor that is still there was not closed and stays open
overwritten(s) == IF s.state = "none" THEN 0 ELSE s.id

\* IPCClient::connect up to the two flag stores: already connected, failure of
\* socket(), gethostbyname() or ::connect(), or a new connection
Conn_call ==
    /\ ~terminated /\ conn = "idle" /\ senders["main"].pc = "idle"
    /\ dropped' = FALSE
    /\ \/ /\ ipc_connected
          /\ connect_ret' = [phase |-> "returned", was_connected |-> TRUE,
                             after_drop |-> dropped, value |-> TRUE, spawned |-> 0,
                             unclosed |-> 0]
          /\ UNCHANGED <<ipc_connected, ipc_running, sock, conn, socket>>
       \/ /\ ~ipc_connected
          /\ connect_ret' = [phase |-> "returned", was_connected |-> FALSE,
                             after_drop |-> dropped, value |-> FALSE, spawned |-> 0,
                             unclosed |-> overwritten(sock)]
          /\ sock' = NoSocket
          /\ UNCHANGED <<ipc_connected, ipc_running, conn, socket>>
       \/ /\ ~ipc_connected /\ Len(rxs) < MaxConnects
          /\ connect_ret' = [phase |-> "called", was_connected |-> FALSE,
                             after_drop |-> dropped, value |-> FALSE, spawned |-> 0,
                             unclosed |-> overwritten(sock)]
          /\ sock' = [state |-> "open", id |-> Len(rxs) + 1]
          /\ socket' = <<>>
          /\ ipc_connected' = TRUE
          /\ ipc_running' = TRUE
          /\ conn' = "spawn"
    /\ UNCHANGED <<terminated, nio, callbacks, rxs, receive_thread, send_mutex,
                   callback_mutex, senders>>
    /\ IpcFrame

\* line 128, right-hand side: the std::thread is constructed and starts
Conn_spawn ==
    /\ ~terminated /\ conn = "spawn"
    /\ rxs' = Append(rxs, [pc |-> loop_test(ipc_running, ipc_connected),
                           kind |-> "other"])
    /\ connect_ret' = [connect_ret EXCEPT !.spawned = @ + 1]
    /\ conn' = "assign"
    /\ UNCHANGED <<terminated, ipc_connected, nio, callbacks, ipc_running, sock,
                   receive_thread, send_mutex, callback_mutex, senders, socket,
                   dropped>>
    /\ IpcFrame

\* line 128, the move assignment: std::terminate when _receive_thread is still
\* joinable, else it takes the new thread and connect() returns true
Conn_assign ==
    /\ ~terminated /\ conn = "assign"
    /\ IF receive_thread # 0
         THEN /\ terminated' = TRUE
              /\ UNCHANGED <<receive_thread, conn, connect_ret>>
         ELSE /\ receive_thread' = Len(rxs)
              /\ conn' = "idle"
              /\ connect_ret' = [connect_ret EXCEPT !.phase = "returned",
                                                    !.value = TRUE]
              /\ UNCHANGED terminated
    /\ UNCHANGED <<ipc_connected, nio, callbacks, ipc_running, sock, rxs,
                   send_mutex, callback_mutex, senders, socket, dropped>>
    /\ IpcFrame

\* IPCClient::disconnect up to the join
Disc_call ==
    /\ ~terminated /\ conn = "idle" /\ senders["main"].pc = "idle"
    /\ ipc_connected
    /\ ipc_running' = FALSE
    /\ ipc_connected' = FALSE
    /\ sock' = NoSocket
    /\ conn' = (IF receive_thread # 0 THEN "join" ELSE "idle")
    /\ UNCHANGED <<terminated, nio, callbacks, rxs, receive_thread, send_mutex,
                   callback_mutex, senders, socket, dropped, connect_ret>>
    /\ IpcFrame

\* _receive_thread.join() returns once the thread's function has returned
Disc_join ==
    /\ ~terminated /\ conn = "join"
    /\ rxs[receive_thread].pc = "done"
    /\ receive_thread' = 0
    /\ conn' = "idle"
    /\ UNCHANGED <<terminated, ipc_connected, nio, callbacks, ipc_running, sock,
                   rxs, send_mutex, callback_mutex, senders, socket, dropped,
                   connect_ret>>
    /\ IpcFrame

\* IPCClient::set_*_callback called by the main thread
Ipc_set_callback ==
    /\ ~terminated /\ conn = "idle" /\ senders["main"].pc = "idle"
    /\ "acquired" \in lock_guard(callback_mutex, "main")
    /\ \E k \in IpcKinds : callbacks' = callbacks \cup {k}
    /\ UNCHANGED <<terminated, ipc_connected, nio, ipcVars>>
    /\ IpcFrame

\* the peer closes the connection
Peer_close ==
    /\ ~terminated /\ sock.state = "open"
    /\ sock' = [sock EXCEPT !.state = "peer_closed"]
    /\ UNCHANGED <<terminated, ipc_connected, nio, callbacks, ipc_running, rxs,
                   receive_thread, send_mutex, callback_mutex, senders, socket,
                   conn, dropped, connect_ret>>
    /\ IpcFrame

RxFrame ==
    /\ UNCHANGED <<nio, callbacks, ipc_running, sock, receive_thread, send_mutex,
                   senders, socket, conn, connect_ret>>
    /\ IpcFrame

\* line 158: recv() returns a chunk of an open connection
Rx_recv_data(i) ==
    /\ ~terminated /\ i \in DOMAIN rxs /\ rxs[i].pc = "recv"
    /\ sock.state = "open"
    /\ \E k \in InboundKinds : rxs' = [rxs EXCEPT ![i] = [pc |-> "parse", kind |-> k]]
    /\ UNCHANGED <<terminated, ipc_connected, callback_mutex, dropped>>
    /\ RxFrame

\* lines 159-165: recv() returns 0 or an error; the drop is marked when the
\* transport is running, and the loop is left
Rx_recv_end(i) ==
    /\ ~terminated /\ i \in DOMAIN rxs /\ rxs[i].pc = "recv"
    /\ sock.state # "open"
    /\ ipc_connected' = (IF ipc_running THEN FALSE ELSE ipc_connected)
    /\ dropped' = (IF ipc_running THEN TRUE ELSE dropped)
    /\ rxs' = [rxs EXCEPT ![i].pc = "exit"]
    /\ UNCHANGED <<terminated, callback_mutex>>
    /\ RxFrame

\* line 170: the thread's function returns
Rx_exit(i) ==
    /\ ~terminated /\ i \in DOMAIN rxs /\ rxs[i].pc = "exit"
    /\ rxs' = [rxs EXCEPT ![i].pc = "done"]
    /\ UNCHANGED <<terminated, ipc_connected, callback_mutex, dropped>>
    /\ RxFrame

\* parse_message, line 204: the lock_guard of the whole function, then the
\* branch of the chunk's kind and the test of its callback; with no callback to
\* call the function returns and the guard releases the mutex
Rx_parse(i) ==
    /\ ~terminated /\ i \in DOMAIN rxs /\ rxs[i].pc = "parse"
    /\ "acquired" \in lock_guard(callback_mutex, RxNames[i])
    /\ IF rxs[i].kind \in callbacks
         THEN /\ callback_mutex' = RxNames[i]
              /\ rxs' = [rxs EXCEPT ![i].pc = "callback"]
         ELSE /\ callback_mutex' = callback_mutex
              /\ rxs' = [rxs EXCEPT ![i].pc = loop_test(ipc_running, ipc_connected)]
    /\ UNCHANGED <<terminated, ipc_connected, dropped>>
    /\ RxFrame

\* the registered callable runs inside parse_message. One that touches no
\* callback returns, parse_message returns and its guard releases the mutex;
\* one that calls set_*_callback locks _callback_mutex again (lines 332-350)
Rx_callback(i) ==
    /\ ~terminated /\ i \in DOMAIN rxs /\ rxs[i].pc = "callback"
    /\ \E body \in CallbackBodies :
         IF body = "plain"
         THEN /\ rxs' = [rxs EXCEPT ![i].pc = loop_test(ipc_running, ipc_connected)]
              /\ callback_mutex' = "none"
              /\ terminated' = terminated
         ELSE \E o \in lock_guard(callback_mutex, RxNames[i]) :
                /\ rxs' = [rxs EXCEPT ![i].pc =
                              IF o = "acquired" THEN "recv" ELSE "blocked"]
                /\ callback_mutex' = callback_mutex
                /\ terminated' = (o = "system_error")
    /\ UNCHANGED <<ipc_connected, dropped>>
    /\ RxFrame

\* send_message proceeding although not connected
send_check_always(connected) == TRUE
\* send_message, line 173: `if (!_connected) return;`
send_check(connected) == connected

\* send_message taking no lock
send_lock_none(owner, t) == {"acquired"}
\* send_message, line 175: the lock_guard on _send_mutex
send_lock(owner, t) == lock_guard(owner, t)

SendFrame ==
    /\ UNCHANGED <<terminated, ipc_connected, callbacks, ipc_running, sock, rxs,
                   receive_thread, callback_mutex, conn, dropped, connect_ret>>
    /\ IpcFrame

\* a thread calls send_*: the record is built and send_message tests _connected
S_check(t) ==
    /\ ~terminated /\ senders[t].pc = "idle"
    /\ t = "main" => conn = "idle"
    /\ nio < MaxIo
    /\ nio' = nio + 1
    /\ senders' = [senders EXCEPT ![t] =
                      [pc |-> IF send_check(ipc_connected) THEN "lock" ELSE "idle",
                       sent |-> 0, fd |-> 0, late |-> dropped]]
    /\ UNCHANGED <<send_mutex, socket>>
    /\ SendFrame

\* lines 175-197: the mutex is taken, the frame is assembled in a local string
\* and send() is entered with the descriptor of the moment
S_lock(t) ==
    /\ ~terminated /\ senders[t].pc = "lock"
    /\ "acquired" \in send_lock(send_mutex, t)
    /\ send_mutex' = t
    /\ senders' = [senders EXCEPT ![t].pc = "write", ![t].fd = sock.id]
    /\ UNCHANGED <<nio, socket>>
    /\ SendFrame

\* line 197: the blocking send() hands the frame to the connection piece by
\* piece, and fails when the descriptor it was given is no open connection;
\* when it returns, send_message returns and its guard releases the mutex
S_write(t) ==
    /\ ~terminated /\ senders[t].pc = "write"
    /\ IF sock.state = "open" /\ sock.id = senders[t].fd
         THEN /\ socket' = Append(socket, [by |-> t, k |-> senders[t].sent + 1])
              /\ senders' = [senders EXCEPT
                                ![t].sent = @ + 1,
                                ![t].pc = IF senders[t].sent + 1 = MaxPieces
                                            THEN "idle" ELSE "write"]
              /\ send_mutex' = (IF senders[t].sent + 1 = MaxPieces
                                  THEN "none" ELSE send_mutex)
         ELSE /\ socket' = socket
              /\ senders' = [senders EXCEPT ![t].pc = "idle"]
              /\ send_mutex' = "none"
    /\ UNCHANGED nio
    /\ SendFrame

NextIpc ==
    \/ Conn_call
    \/ Conn_spawn
    \/ Conn_assign
    \/ Disc_call
    \/ Disc_join
    \/ Ipc_set_callback
    \/ Peer_close
    \/ \E i \in 1..MaxConnects : Rx_recv_data(i)
    \/ \E i \in 1..MaxConnects : Rx_recv_end(i)
    \/ \E i \in 1..MaxConnects : Rx_exit(i)
    \/ \E i \in 1..MaxConnects : Rx_parse(i)
    \/ \E i \in 1..MaxConnects : Rx_callback(i)
    \/ \E t \in Senders : S_check(t)
    \/ \E t \in Senders : S_lock(t)
    \/ \E t \in Senders : S_write(t)

SpecIpc == Init /\ [][NextIpc]_vars

\* the calling threads against the life of the connection: no inbound data
NextSend ==
    \/ Conn_call
    \/ Conn_spawn
    \/ Conn_assign
    \/ Disc_call
    \/ Disc_join
    \/ Peer_close
    \/ \E i \in 1..MaxConnects : Rx_recv_end(i)
    \/ \E i \in 1..MaxConnects : Rx_exit(i)
    \/ \E t \in Senders : S_check(t)
    \/ \E t \in Senders : S_lock(t)
    \/ \E t \in Senders : S_write(t)

SpecSend == Init /\ [][NextSend]_vars

\* ============================================== claims on the transport's threads

\* the threads inside the part of send_message that builds and writes a frame
InSend == {t \in Senders : senders[t].pc = "write"}
\* the receive threads whose function has not returned
LiveRx == {i \in DOMAIN rxs : rxs[i].pc # "done"}

\* C14: the transport holds no lock across the call of an inbound callback nor
\* across the blocking socket write: the callback mutex is free while a
\* callback runs, no receive thread is stuck on it, and a sender that is in
\* the middle of the write does not own the send mutex.
C14_NoLockAcrossCallbackOrWrite ==
    /\ \A i \in DOMAIN rxs : rxs[i].pc = "callback" => callback_mutex = "none"
    /\ \A i \in DOMAIN rxs : rxs[i].pc # "blocked"
    /\ \A t \in Senders :
         (senders[t].pc = "write" /\ senders[t].sent > 0) => send_mutex # t

\* C15: at most one thread is building and writing a frame at any time, and
\* the pieces of each frame are next to each other on the connection, in order.
C15_SendsExclusive ==
    /\ Cardinality(InSend) <= 1
    /\ \A n \in 1..Len(socket) :
         /\ socket[n].k > 1 =>
               /\ n > 1
               /\ socket[n - 1] = [by |-> socket[n].by, k |-> socket[n].k - 1]
         /\ (n < Len(socket) /\ socket[n].k < MaxPieces) =>
               socket[n + 1] = [by |-> socket[n].by, k |-> socket[n].k + 1]

\* one thread is in the middle of its frame while another has passed the
\* connection test and waits for the send mutex
C15_Witness ==
    \E t, u \in Senders :
        /\ t # u
        /\ senders[t].pc = "write" /\ senders[t].sent >= 1
        /\ senders[u].pc = "lock"
        /\ Len(socket) >= 1

\* C16: connect() from the disconnected state, when it succeeds, has started
\* exactly one receive thread; connect() while connected returns true and
\* starts none; at most one receive thread exists in every state.
C16_OneReceiveThread ==
    /\ (connect_ret.phase = "returned" /\ ~connect_ret.was_connected
          /\ connect_ret.value) => connect_ret.spawned = 1
    /\ (connect_ret.phase = "returned" /\ connect_ret.was_connected) =>
          (connect_ret.value /\ connect_ret.spawned = 0)
    /\ Cardinality(LiveRx) <= 1

\* C17: a connect() called after the peer dropped the connection sets the
\* connection up again: the process is not ended by it, and when it returns
\* after starting a thread it returns true and owns that thread.
C17_ReconnectAfterDrop ==
    /\ (connect_ret.after_drop /\ conn = "assign") => ~terminated
    /\ (connect_ret.after_drop /\ connect_ret.phase = "returned"
          /\ connect_ret.spawned = 1) =>
            (connect_ret.value /\ receive_thread = Len(rxs))

\* C18: once the receive thread has marked a drop, and until connect() is
\* called again, the transport is not connected, every receive thread has left
\* its loop, and a send_* call made in that time returns at the connection
\* test: it takes no lock and writes no piece.
C18_DropStopsSends ==
    /\ dropped => ~ipc_connected
    /\ dropped => \A i \in DOMAIN rxs : rxs[i].pc \in {"exit", "done"}
    /\ \A t \in Senders :
         senders[t].late => (senders[t].pc = "idle" /\ senders[t].sent = 0)

\* a send_* call was made after a drop, on a connection that had carried a
\* frame before
C18_Witness ==
    /\ dropped
    /\ Len(socket) >= MaxPieces
    /\ \E t \in Senders : senders[t].late /\ senders[t].pc = "idle"

\* ================================================== claims on the decode pass

\* C12: a motor telemetry record given back to the transport's decode pass is
\* decoded into the port, voltage, velocity and position it was built from.
C12_TelemetryRoundTrip ==
    chunk.src = "motor" =>
        /\ decoded.kind = "motor"
        /\ <<decoded.a, decoded.b, decoded.c, decoded.d>> = chunk.args

\* C19: no inbound chunk, malformed ones included, makes the decode pass
\* raise an error: the receive thread keeps running and the process lives.
C19_DecodeNeverThrows ==
    /\ ~IsThrown(decoded)
    /\ chunk # NoChunk => ~terminated

\* C20: after the callback of a controller message carrying lx, ly, rx, ry and
\* the bitmask b has run, the primary controller's axes hold the clamped values
\* and its buttons A, B, X, Y, UP, DOWN, LEFT, RIGHT, L1, L2, R1, R2 hold bits
\* 0..11 of b.
C20_ControllerDecoded ==
    (chunk.src = "controller" /\ decoded.kind = "controller") =>
        /\ \A ch \in 0..3 :
             controllers[0].analog[ch] = clamp(chunk.args[ch + 1], -127, 127)
        /\ \A k \in 0..11 :
             controllers[0].digital[ButtonOfBit[k + 1]] = BitSet(chunk.args[5], k)

\* ============================================ claims on shutdown and lifecycle

\* C21: shutdown runs its steps in order, each after the previous one has
\* finished: the store's mode is DISABLED from the first step on, the mode
\* thread is joined before the transport is disconnected, the transport is
\* disconnected before the display is shut down, and the display before the
\* store.
C21_ShutdownOrder ==
    /\ main_pc \in {"join", "disconnect", "display", "hal", "done"} =>
          robot_mode = "DISABLED"
    /\ main_pc \in {"disconnect", "display", "hal", "done"} => mode_thread = 0
    /\ main_pc \in {"display", "hal", "done"} => ~ipc_connected
    /\ main_pc \in {"hal", "done"} => ~disp_initialized

\* the handler of a mode thread throws: the thread was started as a bare
\* std::thread(autonomous) or std::thread(opcontrol), with no try block around
\* the handler, so the exception leaves the thread's function and
\* std::terminate ends the process
Handler_throw ==
    \E i \in DOMAIN threads :
        /\ ~terminated
        /\ threads[i].state = "running"
        /\ threads' = [threads EXCEPT ![i].state = "threw"]
        /\ terminated' = TRUE
        /\ UNCHANGED <<motors, robot_mode, lcd_lines, lcd_initialized, running,
                       current_mode, last_mode, mode_thread, main_pc, rx,
                       ipc_connected, disp_initialized, scen, seenAD>>
        /\ OrchFrame

NextThrow == NextOrch \/ Handler_throw

SpecThrow == Init /\ [][NextThrow]_vars

\* C22: a handler that throws on its mode thread is absorbed at the thread
\* boundary: the thread is over and the process is not terminated.
C22_ThrowAbsorbed ==
    (\E i \in DOMAIN threads : threads[i].state = "threw") => ~terminated

\* ------------------------------------------ init, shutdown and disconnect

\* Display::init used as a switch
display_init_toggle(initialized) == ~initialized
\* Display::init: `if (_initialized) return;`, the set-up of the graphics
\* library and of the two drivers, `_initialized = true`
display_init(initialized) == TRUE

\* Display::shutdown: `if (!_initialized) return;`, lv_deinit(),
\* `_initialized = false`
display_shutdown(initialized) == FALSE

\* 1 when the call repeats the call just made
Again(name) == IF lastOp.op = name THEN 1 ELSE 0

LifeFrame == UNCHANGED <<halVars, pros_motors, physVars, running, current_mode,
                         last_mode, mode_thread, threads, main_pc, rx, scen,
                         seenAD, dispVars, scenVars, parseVars, lockVars, obsVars,
                         send_mutex, callback_mutex, senders, socket, conn,
                         connect_ret>>

LifeStep(name) ==
    /\ ~terminated
    /\ nops < MaxOps
    /\ nops' = nops + 1
    /\ lastOp' = Op(name, Again(name), 0, 0)
    /\ LifeFrame

Life_Display_init ==
    /\ LifeStep("Display::init")
    /\ disp_initialized' = display_init(disp_initialized)
    /\ UNCHANGED <<terminated, ipc_connected, ipc_running, sock, rxs,
                   receive_thread, dropped>>

Life_Display_shutdown ==
    /\ LifeStep("Display::shutdown")
    /\ disp_initialized' = display_shutdown(disp_initialized)
    /\ UNCHANGED <<terminated, ipc_connected, ipc_running, sock, rxs,
                   receive_thread, dropped>>

\* IPCClient::connect as one call: at once true when connected; false with
\* the socket closed on a failure; else the flags, the new receive thread and
\* the assignment to _receive_thread
Life_connect ==
    /\ LifeStep("connect")
    /\ \/ /\ ipc_connected
          /\ UNCHANGED <<terminated, ipc_connected, ipc_running, sock, rxs,
                         receive_thread>>
       \/ /\ ~ipc_connected
          /\ sock' = NoSocket
          /\ UNCHANGED <<terminated, ipc_connected, ipc_running, rxs,
                         receive_thread>>
       \/ /\ ~ipc_connected /\ Len(rxs) < MaxConnects
          /\ sock' = [state |-> "open", id |-> Len(rxs) + 1]
          /\ ipc_connected' = TRUE
          /\ ipc_running' = TRUE
          /\ rxs' = Append(rxs, [pc |-> loop_test(TRUE, TRUE), kind |-> "other"])
          /\ terminated' = (receive_thread # 0)
          /\ receive_thread' = (IF receive_thread # 0 THEN receive_thread
                                                        ELSE Len(rxs) + 1)
    /\ dropped' = FALSE
    /\ UNCHANGED disp_initialized

\* the peer closes the connection; the receive thread marks the drop and its
\* function returns
Life_drop ==
    /\ LifeStep("drop")
    /\ sock.state = "open" /\ ipc_running
    /\ \E i \in DOMAIN rxs : rxs[i].pc = "recv"
    /\ sock' = [sock EXCEPT !.state = "peer_closed"]
    /\ ipc_connected' = FALSE
    /\ dropped' = TRUE
    /\ rxs' = [i \in DOMAIN rxs |-> [rxs[i] EXCEPT !.pc = "done"]]
    /\ UNCHANGED <<terminated, disp_initialized, ipc_running, receive_thread>>

\* IPCClient::disconnect as one call: nothing when not connected; else the
\* flags are cleared, the socket is closed and the receive thread, which
\* leaves its loop, is joined
Life_disconnect ==
    /\ LifeStep("disconnect")
    /\ IF ~ipc_connected
         THEN UNCHANGED <<ipc_connected, ipc_running, sock, rxs, receive_thread>>
         ELSE /\ ipc_running' = FALSE
              /\ ipc_connected' = FALSE
              /\ sock' = NoSocket
              /\ rxs' = [i \in DOMAIN rxs |-> [rxs[i] EXCEPT !.pc = "done"]]
              /\ receive_thread' = 0
    /\ UNCHANGED <<terminated, disp_initialized, dropped>>

NextLife ==
    \/ Call_init
    \/ Call_shutdown
    \/ Call_set_motor
    \/ Call_set_controller_analog
    \/ Call_set_robot_mode
    \/ Call_lcd_set_text
    \/ Life_Display_init
    \/ Life_Display_shutdown
    \/ Life_connect
    \/ Life_drop
    \/ Life_disconnect

SpecLife == Init /\ [][NextLife]_vars

LifecycleOps ==
    {"init", "shutdown", "Display::init", "Display::shutdown", "disconnect"}

\* C23: HAL::init, HAL::shutdown, Display::init, Display::shutdown and
\* IPCClient::disconnect are idempotent: a call that repeats the call just
\* made changes nothing in the store, the display or the transport.
C23_Idempotent ==
    [][(nops' = nops + 1 /\ lastOp.op \in LifecycleOps /\ lastOp'.op = lastOp.op) =>
          UNCHANGED <<halVars, disp_initialized, dispVars, touch, ipc_connected,
                      ipc_running, sock, rxs, receive_thread, terminated>>]_vars

\* a second disconnect() right after one that joined a receive thread
C23_Witness ==
    /\ lastOp = Op("disconnect", 1, 0, 0)
    /\ Len(rxs) >= 1 /\ receive_thread = 0

\* C24: a connect() that fails returns false and leaves the transport without
\* a connection: is_connected() is false, no socket is open (the descriptor
\* field is INVALID_SOCKET and no descriptor was left unclosed), and no
\* receive thread has been started by the call.
C24_FailedConnectClean ==
    (connect_ret.phase = "returned" /\ ~connect_ret.was_connected
       /\ ~connect_ret.value) =>
        /\ ~ipc_connected
        /\ sock = NoSocket
        /\ connect_ret.spawned = 0
        /\ connect_ret.unclosed = 0

\* ------------------------------------------ frame of the actual velocity
\* the calls on the store, with physics ticks between them
NextVelocity ==
    \/ Call_init
    \/ Call_shutdown
    \/ Call_set_motor
    \/ Call_set_motor_velocity
    \/ Call_set_motor_position
    \/ Call_set_motor_gearset
    \/ Call_set_motor_reversed
    \/ Call_set_motor_connected
    \/ Call_set_controller_analog
    \/ Call_set_robot_mode
    \/ Call_lcd_set_text
    \/ Phys_update

SpecVelocity == Init /\ [][NextVelocity]_vars

ActualVelocities(ms) == [p \in 1..NUM_MOTORS |-> ms[p].actual_velocity]

\* C25 as stated: every HAL operation other than the physics tick, init
\* included, leaves the actual velocity of all 21 motors unchanged.
C25_Original ==
    [][(nops' # nops /\ lastOp'.op # "update") =>
          ActualVelocities(motors') = ActualVelocities(motors)]_vars

\* C25 (amended): the actual velocity of a motor is changed only by the
\* physics tick and by init, which sets it to 0 for all 21 motors; shutdown and
\* every motor, controller, mode and text-display setter leave it unchanged.
C25_VelocityFrame ==
    [][(nops' # nops /\ lastOp'.op # "update") =>
          IF lastOp'.op = "init"
          THEN \A p \in 1..NUM_MOTORS : motors'[p].actual_velocity = R(0, 1)
          ELSE ActualVelocities(motors') = ActualVelocities(motors)]_vars

\* a setter has run on a motor that is turning
C25_Witness ==
    /\ lastOp.op = "set_motor_connected" /\ lastOp.a = 1
    /\ motors[1].actual_velocity # R(0, 1)

\* ------------------------------------------ controller axes
AnalogInRange(cs) ==
    \A i \in 0..1, c \in 0..(NUM_ANALOG - 1) :
        cs[i].analog[c] >= -127 /\ cs[i].analog[c] <= 127

\* C26: set_controller_analog(id, channel, v) with id in {0,1} and channel in
\* 0..3 stores clamp(v,-127,127) on that axis, and in every reachable state
\* all four analog axes of both controllers lie in [-127,127].
C26_AnalogClamped ==
    /\ AnalogInRange(controllers)
    /\ [][/\ AnalogInRange(controllers')
          /\ (lastOp'.op = "set_controller_analog" /\ nops' # nops
                 /\ lastOp'.a \in 0..1 /\ lastOp'.b \in 0..3) =>
                controllers'[lastOp'.a].analog[lastOp'.b] =
                    (IF lastOp'.c > 127 THEN 127
                     ELSE IF lastOp'.c < -127 THEN -127 ELSE lastOp'.c)]_vars

\* set_controller_analog(1, 0, -128) has stored -127
C26_Witness ==
    /\ lastOp = Op("set_controller_analog", 1, 0, -128)
    /\ controllers[1].analog[0] = -127

\* ------------------------------------------ the mode the main loop checks
\* C27: the mode lives in the store alone: it starts DISABLED, and the value
\* the main loop compares with the last mode it saw, at each mode check, is
\* the store's mode (HAL::get_robot_mode()) of that moment.
C27_CheckReadsStoreMode ==
    /\ (main_pc = "start") => robot_mode = "DISABLED"
    /\ (main_pc = "check") => current_mode = robot_mode

\* ------------------------------------------ inbound data without callbacks
\* C28: while no callback is registered, an inbound chunk of any content
\* leaves the whole store, the display canvas and the touch sample unchanged.
C28_NoCallbackNoEffect ==
    [][(callbacks = {} /\ callbacks' = {} /\ ipc_connected) =>
          UNCHANGED <<halVars, framebuffer, touch>>]_vars

\* a touch record has been received with no callback registered
C28_Witness ==
    /\ callbacks = {}
    /\ chunk.src = "touch" /\ find(chunk.text, T_x) # npos
    /\ decoded = NoCall

\* ------------------------------------------ the touch sample
\* Display::set_touch: three stores, each into a std::atomic of its own
\* a set_touch that keeps a press until it is read
set_touch_sticky(t, x, y, pressed) ==
    [x |-> x, y |-> y, pressed |-> t.pressed \/ pressed]
set_touch(t, x, y, pressed) == [x |-> x, y |-> y, pressed |-> pressed]

\* Display::touch_read_cb: three loads into lv_indev_data_t
touch_read_cb(t) ==
    [x |-> t.x, y |-> t.y, state |-> IF t.pressed THEN "PR" ELSE "REL"]

TouchSamples ==
    {[x |-> 10, y |-> 20, pressed |-> TRUE],
     [x |-> 30, y |-> 40, pressed |-> FALSE],
     [x |-> 10, y |-> 40, pressed |-> TRUE]}

TouchFrame == UNCHANGED <<halVars, pros_motors, lastOp, nops, physVars, orchVars,
                          dispVars, scenVars, callbacks, chunk, decoded, outbox,
                          lockVars, ipcVars, reader>>

\* a store of set_touch made while a poll is between its loads
Overlapped(p) == IF p.pc \in {"y", "state"} THEN [p EXCEPT !.overlap = TRUE] ELSE p

\* on_touch on the receive thread calls set_touch: `_touch_x = x`
Touch_store_x ==
    /\ set_touch_call.pc = "idle"
    /\ \E s \in TouchSamples :
         /\ touch' = [touch EXCEPT !.x = set_touch(touch, s.x, s.y, s.pressed).x]
         /\ set_touch_call' = [set_touch_call EXCEPT !.pc = "y", !.arg = s]
    /\ poll' = Overlapped(poll)
    /\ TouchFrame

\* `_touch_y = y`
Touch_store_y ==
    /\ set_touch_call.pc = "y"
    /\ LET a == set_touch_call.arg
       IN  touch' = [touch EXCEPT !.y = set_touch(touch, a.x, a.y, a.pressed).y]
    /\ set_touch_call' = [set_touch_call EXCEPT !.pc = "pressed"]
    /\ poll' = Overlapped(poll)
    /\ TouchFrame

\* `_touch_pressed = pressed`, and the call returns
Touch_store_pressed ==
    /\ set_touch_call.pc = "pressed"
    /\ LET a == set_touch_call.arg
       IN  touch' = [touch EXCEPT
                        !.pressed = set_touch(touch, a.x, a.y, a.pressed).pressed]
    /\ set_touch_call' = [set_touch_call EXCEPT !.pc = "idle",
                             !.last = set_touch_call.arg,
                             !.since = Min(@ + 1, 2)]
    /\ poll' = Overlapped(poll)
    /\ TouchFrame

\* the widget layer polls: `data->point.x = self->_touch_x`
Poll_x ==
    /\ poll.pc \in {"idle", "done"}
    /\ poll' = [poll EXCEPT !.pc = "y", !.x = touch_read_cb(touch).x,
                            !.expect = set_touch_call.last,
                            !.calls = set_touch_call.since,
                            !.overlap = (set_touch_call.pc # "idle")]
    /\ set_touch_call' = [set_touch_call EXCEPT !.since = 0]
    /\ UNCHANGED touch
    /\ TouchFrame

\* `data->point.y = self->_touch_y`
Poll_y ==
    /\ poll.pc = "y"
    /\ poll' = [poll EXCEPT !.pc = "state", !.y = touch_read_cb(touch).y]
    /\ UNCHANGED <<touch, set_touch_call>>
    /\ TouchFrame

\* `data->state = self->_touch_pressed ? ... : ...`, and the poll returns
Poll_state ==
    /\ poll.pc = "state"
    /\ poll' = [poll EXCEPT !.pc = "done", !.state = touch_read_cb(touch).state]
    /\ UNCHANGED <<touch, set_touch_call>>
    /\ TouchFrame

NextTouch ==
    \/ Touch_store_x
    \/ Touch_store_y
    \/ Touch_store_pressed
    \/ Poll_x
    \/ Poll_y
    \/ Poll_state

SpecTouch == Init /\ [][NextTouch]_vars

\* C29: the touch sample is one slot in which the last writer wins: a poll
\* made after a sequence of set_touch calls, none of them running during the
\* poll, returns exactly the x, y and pressed state of the most recent call,
\* whatever the earlier calls stored.
C29_LastWriterWins ==
    (poll.pc = "done" /\ ~poll.overlap) =>
        /\ poll.x = poll.expect.x
        /\ poll.y = poll.expect.y
        /\ poll.state = touch_read_cb(poll.expect).state

\* a poll after two set_touch calls with no poll between them has returned
\* the second sample
C29_Witness ==
    /\ poll.pc = "done" /\ ~poll.overlap
    /\ poll.calls >= 2
    /\ poll.expect = [x |-> 30, y |-> 40, pressed |-> FALSE]
    /\ poll.x = 30 /\ poll.y = 40 /\ poll.state = "REL"

\* ------------------------------------------ reads through a snapshot accessor
\* the fields of a motor that a tick writes
TickFields == <<"actual_velocity", "position", "current", "temperature">>
TickValues(m) == [i \in 1..Len(TickFields) |-> m[TickFields[i]]]

ReadFrame == UNCHANGED <<halVars, pros_motors, lastOp, nops, physVars, orchVars,
                         dispVars, scenVars, parseVars, lockVars, ipcVars,
                         set_touch_call, poll>>

\* HAL::get_motor_state(port) called by a thread other than main: the guard
\* is taken, `return _motors[port - 1]` hands out a reference to the live
\* record, and the guard releases the mutex as the function returns
Read_get_motor_state ==
    /\ ~terminated /\ reader.pc \in {"idle", "done"}
    /\ "acquired" \in lock_guard(hal_mutex, "reader")
    /\ reader' = [pc |-> "read", snap |-> <<>>, seen |-> {}]
    /\ ReadFrame

\* the caller reads the next field through the reference; no mutex is held
Read_field ==
    /\ ~terminated /\ reader.pc = "read"
    /\ LET i == Len(reader.snap) + 1
           snap == Append(reader.snap, motors[PhysPort][TickFields[i]])
       IN  reader' = [pc |-> IF i = Len(TickFields) THEN "done" ELSE "read",
                      snap |-> snap,
                      seen |-> reader.seen \cup {TickValues(motors[PhysPort])}]
    /\ ReadFrame

NextRead ==
    \/ Lock_set_motor
    \/ Lock_set_motor_connected
    \/ Upd_lock
    \/ Upd_sweep
    \/ Upd_notify
    \/ Read_get_motor_state
    \/ Read_field

SpecRead == Init /\ [][NextRead]_vars

\* C30: a read of a motor by another thread is atomic with respect to the
\* tick: the values a reader gets through get_motor_state (actual velocity,
\* position, current, temperature) are those the motor had at one moment,
\* all from before a tick or all from after it, never a mixture.
C30_SnapshotAtomic ==
    reader.pc = "done" => reader.snap \in reader.seen

\* ================================================== the tick, field by field
\* commands to the motor under observation, any gearset value among them, and
\* ticks
NextTick ==
    \/ Phys_set_motor
    \/ Phys_set_motor_gearset
    \/ Phys_set_motor_connected
    \/ Call_set_motor_gearset
    \/ Phys_update

SpecTick == Init /\ [][NextTick]_vars

\* the step one tick is to make on a motor
RefMax(gearset) ==
    IF gearset = E_MOTOR_GEARSET_36 THEN 100
    ELSE IF gearset = E_MOTOR_GEARSET_06 THEN 600
    ELSE 200
RefStep(m) ==
    IF ~m.connected THEN m
    ELSE LET max   == R(RefMax(m.gearset), 1)
             tgt   == RMul(R(m.voltage, 127), max)
             act   == RAdd(RMul(R(9, 10), m.actual_velocity), RMul(R(1, 10), tgt))
             ratio == RAbs(RMul(act, R(1, RefMax(m.gearset))))
             cur   == Trunc(RMul(ratio, R(2000, 1)))
         IN  [voltage |-> m.voltage, velocity |-> m.velocity,
              position |-> RAdd(m.position, RMul(act, R(6, 100))),
              actual_velocity |-> act,
              current |-> cur,
              temperature |-> RAdd(R(25, 1), RMul(R(cur, 2500), R(30, 1))),
              gearset |-> m.gearset, reversed |-> m.reversed,
              connected |-> m.connected]

\* C31: one update() tick makes the reference step on every motor: a
\* disconnected motor is unchanged; a connected one gets max 100, 200 or 600
\* by gearset (200 for any other value), actual' = 0.9*actual +
\* 0.1*(voltage/127*max), position' = position + 0.06*actual', current' = the
\* integer part of |actual'/max|*2000, temperature' = 25 + current'/2500*30,
\* with voltage, velocity, gearset, reversed and connected unchanged.
C31_TickIsReferenceStep ==
    [][ticks' = ticks + 1 =>
          \A p \in 1..NUM_MOTORS : motors'[p] = RefStep(motors[p])]_vars

\* a tick has run on the connected motor with a gearset value outside the
\* three ratios, and has moved it
C31_Witness ==
    /\ lastOp.op = "update"
    /\ motors[PhysPort].connected
    /\ motors[PhysPort].gearset = E_MOTOR_GEARSET_INVALID
    /\ motors[PhysPort].actual_velocity # R(0, 1)
    /\ motors[PhysPort].current > 0

\* ================================================== several records in a chunk
\* recv() may hand over two records of the peer in one buffer: one record of
\* each kind, in every order of two different kinds
OneOfEach ==
    {P_touch_open \o P_x_70000 \o P_y_neg \o P_pressed_true \o T_close,
     controller_json(10, -127, -10, 0, 2049),
     P_mode_value \o T_autonomous \o P_quote_close,
     P_select_auto_open \o P_category_match \o P_index_12 \o T_close}
SeveralChunks ==
    {Chunk("several", <<>>, ab[1] \o ab[2]) :
        ab \in {pr \in OneOfEach \X OneOfEach : pr[1] # pr[2]}}

Coalesced ==
    [cbs \in SUBSET CallbackKinds |->
        {Decoded(c, NoGarbage, cbs) : c \in SeveralChunks}] @@ <<>>

Receive_several ==
    /\ ipc_connected /\ ~terminated
    /\ \E d \in Coalesced[callbacks] : Deliver(d)

NextDispatch ==
    \/ Call_connect
    \/ Call_set_callback
    \/ Receive_chunk
    \/ Receive_several

SpecDispatch == Init /\ [][NextDispatch]_vars

\* the kinds in the order of the probes, and the one a chunk is to go to
ProbeOrder == <<"touch", "controller", "mode", "select_auto">>
Probe(kind) ==
    CASE kind = "touch" -> T_type_touch
      [] kind = "controller" -> T_type_controller
      [] kind = "mode" -> T_type_mode
      [] kind = "select_auto" -> T_type_select_auto
FirstKind(text) ==
    LET hits == {i \in 1..Len(ProbeOrder) : find(text, Probe(ProbeOrder[i])) # npos}
    IN  IF hits = {} THEN "none"
        ELSE ProbeOrder[CHOOSE i \in hits : \A j \in hits : i <= j]

\* ... worked out once for every chunk of the runs
FirstKinds == [c \in Chunks \cup SeveralChunks |-> FirstKind(c.text)] @@ <<>>

\* C32: an inbound chunk invokes at most one callback, that of the first probe
\* that matches in the order touch, controller, mode, select_auto; none when no
\* probe matches or when the callback of that kind is not registered; a chunk
\* holding several records invokes only the callback of the first kind in
\* probe order.
C32_FirstProbeOnly ==
    chunk # NoChunk =>
        LET first == FirstKinds[chunk]
        IN  /\ decoded.kind \in CallbackKinds =>
                  (decoded.kind = first /\ first \in callbacks)
            /\ (first = "none" \/ first \notin callbacks) => decoded = NoCall

\* a chunk with the mode record ahead of the touch record, both callbacks
\* registered, has gone to the touch callback
C32_Witness ==
    /\ chunk.src = "several"
    /\ {"touch", "mode"} \subseteq callbacks
    /\ chunk.text = (P_mode_value \o T_autonomous \o P_quote_close)
                      \o (P_touch_open \o P_x_70000 \o P_y_neg
                            \o P_pressed_true \o T_close)
    /\ decoded.kind = "touch"

\* ================================================== one handler per mode edge
\* C33: at a mode check whose sampled mode equals the last mode seen nothing
\* is started; at one whose sampled mode differs, DISABLED starts no thread
\* (disabled() runs inline) while AUTONOMOUS and OPCONTROL each start exactly
\* one new thread running autonomous() or opcontrol(), and the last mode seen
\* becomes the sampled mode.
C33_OneHandlerPerEdge ==
    [][(main_pc = "check" /\ main_pc' # "check") =>
          LET mode == current_mode
          IN  IF mode = last_mode
              THEN threads' = threads /\ last_mode' = last_mode
              ELSE IF mode = "DISABLED"
              THEN threads' = threads /\ last_mode' = mode
              ELSE /\ Len(threads') = Len(threads) + 1
                   /\ threads'[Len(threads')].handler =
                          (IF mode = "AUTONOMOUS" THEN "autonomous" ELSE "opcontrol")
                   /\ threads'[Len(threads')].state = "running"
                   /\ last_mode' = mode
                   /\ ~terminated']_vars

\* ================================================== inbound mode messages
\* the mode message of the protocol with a given value, and the mode a value
\* names
ModeMessage(value) == P_mode_value \o value \o P_quote_close
NamedModes ==
    {<<T_disabled, "DISABLED">>, <<T_autonomous, "AUTONOMOUS">>,
     <<T_opcontrol, "OPCONTROL">>}
\* mode messages with another value, or with no value field
UnnamedModeMessages == {ModeMessage(P_bogus), P_mode_only}

\* C34: with the mode callback registered, an inbound mode message whose
\* value is "disabled", "autonomous" or "opcontrol" sets the store's mode to
\* DISABLED, AUTONOMOUS or OPCONTROL; one with any other value, or with no
\* value field, leaves the store's mode and the mode the main loop observes
\* unchanged.
C34_ModeMessageSetsMode ==
    [][(ipc_connected /\ ~terminated /\ ipc_connected' = ipc_connected
          /\ callbacks' = callbacks /\ "mode" \in callbacks
          /\ chunk'.src = "mode") =>
          /\ \A nm \in NamedModes :
                 chunk'.text = ModeMessage(nm[1]) =>
                     (robot_mode' = nm[2] /\ current_mode' = nm[2])
          /\ chunk'.text \in UnnamedModeMessages =>
                 UNCHANGED <<robot_mode, current_mode, last_mode>>]_vars

\* a mode message with an unknown value has been handled after the mode had
\* been set to AUTONOMOUS, which it has left in place
C34_Witness ==
    /\ "mode" \in callbacks
    /\ chunk.text = ModeMessage(P_bogus)
    /\ decoded.kind = "mode" /\ decoded.text = P_bogus
    /\ robot_mode = "AUTONOMOUS" /\ current_mode = "AUTONOMOUS"

\* ================================================ the flush and the transport
\* the canvas cells of a rectangle, and the place of one of them in the
\* row-major order of those cells
CanvasCells(a) ==
    {c \in ((a.x1)..(a.x2)) \X ((a.y1)..(a.y2)) :
        0 <= c[1] /\ c[1] <= 479 /\ 0 <= c[2] /\ c[2] <= 271}
CellRank(a, c) ==
    1 + Cardinality({e \in CanvasCells(a) :
                        e[2] < c[2] \/ (e[2] = c[2] /\ e[1] < c[1])})

\* C35: a flush updates the canvas whether or not the transport is connected,
\* and emits a screen record if and only if the transport is connected at
\* that moment; the record's pixels are the values just written to the
\* canvas for the canvas cells of the flushed rectangle, in row-major order,
\* so a flush of less than the canvas never sends the whole canvas.
C35_FlushEmitsWhatItWrote ==
    [][last_flush'.n # last_flush.n =>
         LET a == last_flush'.area
             b == last_flush'.base
         IN  /\ \A c \in CanvasCells(a) :
                   fb_read(framebuffer', c[2] * 480 + c[1]) =
                       color_p(b, (c[2] - a.y1) * (a.x2 - a.x1 + 1)
                                    + (c[1] - a.x1))
             /\ ~ipc_connected => emitted' = emitted
             /\ ipc_connected =>
                   /\ Len(emitted') = Len(emitted) + 1
                   /\ SubSeq(emitted', 1, Len(emitted)) = emitted
                   /\ LET u == emitted'[Len(emitted')]
                      IN  /\ Len(u.pixels) = Cardinality(CanvasCells(a))
                          /\ Len(u.pixels) < BUFFER_SIZE
                          /\ \A c \in CanvasCells(a) :
                                u.pixels[CellRank(a, c)] =
                                    framebuffer'[c[2] * 480 + c[1]]
    ]_vars

\* two flushes have updated the canvas, the first with the transport not
\* connected and the second, of a rectangle inside the canvas, connected
C35_Witness ==
    /\ last_flush.n = 2
    /\ Len(emitted) = 1
    /\ ipc_connected
    /\ last_flush.area = [x1 |-> 0, y1 |-> 1, x2 |-> 1, y2 |-> 2]
    /\ emitted[1].pixels = [k \in 1..4 |-> color_p(last_flush.base, k - 1)]
    /\ Cardinality(DOMAIN framebuffer) > 4

\* ===================================================== after disconnect()
\* C36: after disconnect() returns, from any prior state of the transport,
\* the receive thread has exited and been joined, the socket is closed and
\* is_connected() is false: no joinable receive thread and no open socket
\* are left.
C36_DisconnectLeavesNothing ==
    lastOp.op = "disconnect" =>
        /\ ~ipc_connected
        /\ receive_thread = 0
        /\ \A i \in DOMAIN rxs : rxs[i].pc = "done"
        /\ sock.state = "none"

\* the same for a disconnect() called while the transport is marked connected
C36_FromConnected ==
    [][(lastOp'.op = "disconnect" /\ nops' = nops + 1 /\ ipc_connected) =>
          /\ ~ipc_connected'
          /\ receive_thread' = 0
          /\ \A i \in DOMAIN rxs' : rxs'[i].pc = "done"
          /\ sock'.state = "none"]_vars

\* ================================================ send_* against disconnect()
\* disconnect() has closed the socket and no connect() has opened another
ClosedByDisconnect == sock.state = "none" /\ ~ipc_running

\* C37: a send_* call racing with disconnect() never writes to a socket that
\* disconnect() has already closed: no thread runs the send() of line 197
\* with a descriptor that disconnect() has closed.
C37_NoSendOnClosedSocket ==
    [][\A t \in Senders :
          (senders[t].pc = "write" /\ senders'[t] # senders[t]) =>
              ~(ClosedByDisconnect /\ senders[t].fd # 0)]_vars

\* what is put on a connection is put there while it is open
C37_BytesOnlyWhileOpen ==
    [][Len(socket') > Len(socket) => (sock.state = "open" /\ sock' = sock)]_vars

\* ==================================================== polls during set_touch
\* C38: under concurrent set_touch calls and polls, every poll returns a
\* triple (x, y, pressed) written by one single set_touch call, or the
\* initial (0, 0, released): never x of one call with y or pressed of another.
C38_PollNeverTorn ==
    poll.pc = "done" =>
        \E s \in TouchSamples \cup {NoTouch} :
            [x |-> poll.x, y |-> poll.y, state |-> poll.state] = touch_read_cb(s)

\* ======================================================= limits of a motor
\* pros::Motor's constructor: _current_limit(2500)
current_limit == 2500
\* pros::Motor::is_over_current and is_over_temp
is_over_current(port) == get_motor_current(port) > current_limit
is_over_temp(port) == RLt(R(55, 1), get_motor_temperature(port))

\* the gearset is given to a motor before its first tick, while it is at rest
Rest_set_motor_gearset ==
    /\ ticks = 0
    /\ Phys_set_motor_gearset

NextBound ==
    \/ Phys_set_motor
    \/ Phys_set_motor_connected
    \/ Rest_set_motor_gearset
    \/ Phys_update

SpecBound == Init /\ [][NextBound]_vars

\* C39: for a motor that starts at rest and whose gearset is not changed
\* afterwards, after any sequence of set_motor calls and ticks,
\* |actual_velocity| <= max_velocity(gearset), 0 <= current <= 2000 and
\* 25 <= temperature <= 49, so is_over_current (limit 2500 mA) and
\* is_over_temp (above 55 degrees) are false.
C39_WithinLimits ==
    LET m == motors[PhysPort]
    IN  /\ RLe(RAbs(m.actual_velocity), R(RefMax(m.gearset), 1))
        /\ 0 <= m.current /\ m.current <= 2000
        /\ RLe(R(25, 1), m.temperature) /\ RLe(m.temperature, R(49, 1))
        /\ ~is_over_current(PhysPort)
        /\ ~is_over_temp(PhysPort)

\* a connected motor driven at full voltage, then reversed, after ticks in
\* both directions
C39_Witness ==
    LET m == motors[PhysPort]
    IN  /\ m.connected /\ m.gearset = E_MOTOR_GEARSET_18
        /\ m.voltage = -127
        /\ ticks >= 4
        /\ RLt(R(0, 1), m.actual_velocity)
        /\ m.current > 0
        /\ RLt(R(25, 1), m.temperature)

\* ======================================================= the end of shutdown
\* the steps of main(), one after the other on the main thread
MainSteps ==
    \/ Main_start
    \/ Main_initialize
    \/ Main_update
    \/ Main_check_mode
    \/ Main_exit_loop
    \/ Cleanup_mode
    \/ Cleanup_join
    \/ Cleanup_disconnect
    \/ Cleanup_display
    \/ Cleanup_hal

\* every thread that can take a step is scheduled in the end: the main
\* thread, the mode threads and the receive thread inside on_mode_change.
\* disconnect() clears the flags and closes the socket whatever the receive
\* thread is doing, and its join waits for no more than the message in hand,
\* so messages that keep arriving do not hold it up for ever.
\* The signal and the arrival of mode messages are left to the environment.
SpecShutdown ==
    /\ SpecOrch
    /\ WF_vars(MainSteps)
    /\ SF_vars(Cleanup_disconnect)
    /\ WF_vars(Autonomous_return)
    /\ WF_vars(Opcontrol_loop)
    /\ WF_vars(Rx_set_robot_mode)

\* C40: with the default handlers, once the shutdown signal has cleared the
\* running flag, the system eventually finishes shutdown: the main loop is
\* left, the mode thread is joined and main() returns.
C40_ShutdownCompletes == (~running) ~> (main_pc = "done")

\* the same, for the runs in which no std::terminate ends the process
C40_CompletesUnlessTerminated == (~running) ~> (main_pc = "done" \/ terminated)

\* a shutdown that has joined a mode thread
C40_JoinedAtExit ==
    (main_pc = "done") =>
        /\ mode_thread = 0
        /\ \A i \in DOMAIN threads : threads[i].state = "finished"

====
